---- MODULE Spec2Model ----
(***************************************************************************)
(* Model of the on-disk thumbnail cache of WSelector                        *)
(* (src/wselector/utils.py: get_cached_thumbnail_path, cleanup_cache).      *)
(*                                                                         *)
(* Sizes are in MB, as cleanup_cache compares them (total_size_mb against   *)
(* max_size_mb).  size / (1024 * 1024) and the running subtraction are      *)
(* exact in binary floating point, and 800 * 0.9 == 720.0, so the float     *)
(* comparisons of the code are the integer comparisons written here.        *)
(*                                                                         *)
(* Spec     : calls run one after another, each action a whole call, and    *)
(*            every os.remove of a sweep succeeds.                          *)
(* SpecLRU  : the scripted run "write A, B, C, hit A, write D".             *)
(* SpecConc : two threads run get_cached_thumbnail_path step by step.       *)
(* SpecTwin : two threads fetch the same URL at the same time.              *)
(* SpecBestEffort : Spec with os.remove failing in the sweeps.              *)
(* SpecOnce : Spec with the record of the keys downloaded.                  *)
(* SpecE2E  : five 300 KB images fetched with a budget of 1 MB.             *)
(* SpecConfined : Spec with files outside cache_dir on the disk.            *)
(* SpecKey  : URLs of two hosts, some with no basename, fetched by          *)
(*            processes that follow one another on one cache_dir.           *)
(* SpecMem  : check_memory_usage and track_memory_usage called one after    *)
(*            another (utils.py:468-609).                                   *)
(***************************************************************************)
EXTENDS Integers, Sequences, FiniteSets, TLC

\* utils.py:18
MAX_CACHE_SIZE_MB == 800

\* Bound of the model: the clock stops creating files at this time.
MaxTime == 4

VARIABLES
  served,     \* served[u]: the body the server sends for URL u
  dirExists,  \* cache_dir exists
  files,      \* the regular files of cache_dir: name -> [data, atime]
  now,        \* the clock the filesystem stamps st_atime with
  last,       \* what the last call did (history)
  script,     \* SpecLRU, SpecE2E: the number of steps of the script taken
  threads,    \* SpecConc: the calls in progress
  budget,     \* the value of the module global MAX_CACHE_SIZE_MB (utils.py:18)
              \* in the unit the sizes are in
  downloaded, \* SpecOnce: [got, stored], the keys whose GET succeeded and
              \* the keys whose file was created, no sweep having removed
              \* the file since (history)
  hashSeed,   \* the seed of str hashes in the running process
  mem,        \* the memory management state: the module globals of
              \* utils.py:20-29, the clock and the calls in progress
  outside     \* the regular files of the disk that are not under
              \* cache_dir: path -> [data, atime]

vars ==
  <<served, dirExists, files, now, last, script, threads, budget, downloaded,
    hashSeed, mem, outside>>

(***************************************************************************)
(* URLs.  Only the basename of the URL's path decides the file name, so a   *)
(* URL is a host and the basename of its path.                              *)
(***************************************************************************)
URLs ==
  { [host |-> "h1", base |-> "a.jpg"],
    [host |-> "h1", base |-> "b.jpg"],
    [host |-> "h1", base |-> "c.jpg"],
    [host |-> "h1", base |-> "d.jpg"] }

\* hash(url) of a str: one fixed value per URL within a process, which
\* depends on the seed the interpreter drew when the process started
\* (hash randomization of str).  A URL with no basename is known by its
\* host.
Hash(seed, url) == seed \o "_" \o url.host

\* utils.py:377-379, in the running process.
Filename(url) ==
  IF url.base # "" THEN url.base
  ELSE "thumbnail_" \o Hash(hashSeed, url) \o ".jpg"

Keys == { Filename(u) : u \in URLs }

\* The URLs the calls of Spec are made for.
SpecURLs == { u \in URLs : u.base \in {"a.jpg", "b.jpg", "d.jpg"} }

\* The value get_cached_thumbnail_path returns on failure.
None == "None"

\* The bodies a server may send: the sizes in MB of the chunks of the
\* response, in order.
Bodies == { <<100>>, <<100, 100>>, <<200, 200>>, <<450, 450>> }

\* Chunk i of the body of URL u.
Chunk(u, i, mb) == [url |-> u, idx |-> i, mb |-> mb]

\* The bytes served for u, as the chunks response.iter_content yields.
Body(srv, u) == [i \in 1..Len(srv[u]) |-> Chunk(u, i, srv[u][i])]

RECURSIVE SumMB(_)
SumMB(data) ==
  IF data = <<>> THEN 0 ELSE data[1].mb + SumMB(Tail(data))

\* stat.st_size of a file, in MB.
StSize(f) == SumMB(f.data)

\* Sum of st_size over the files of the directory.
TotalMB(fs) ==
  LET RECURSIVE Sum(_)
      Sum(S) == IF S = {} THEN 0
                ELSE LET k == CHOOSE x \in S : TRUE
                     IN StSize(fs[k]) + Sum(S \ {k})
  IN Sum(DOMAIN fs)

\* fs without the file k.
Remove(fs, k) == [x \in (DOMAIN fs) \ {k} |-> fs[x]]

\* The names in a sequence of removed entries.
Names(deleted) == { deleted[i].name : i \in 1..Len(deleted) }

\* Of the files left by a sweep, those of cache_dir.
InCacheDir(fs) == [n \in (DOMAIN fs) \ (DOMAIN outside) |-> fs[n]]

\* utils.py:441, os.remove(filepath) for the entries removed: the files
\* outside cache_dir that are left.
Unlinked(out, deleted) == [n \in (DOMAIN out) \ Names(deleted) |-> out[n]]

\* fs with file k created or replaced.
Put(fs, k, f) == [x \in (DOMAIN fs) \cup {k} |-> IF x = k THEN f ELSE fs[x]]

(***************************************************************************)
(* cleanup_cache, utils.py:405-447.                                         *)
(***************************************************************************)

\* utils.py:419-420, the entry (filepath, st_atime, st_size) listed for file k.
Entry(fs, k) == [name |-> k, atime |-> fs[k].atime, mb |-> StSize(fs[k])]

\* Mutant of SortByAtime: newest first.
RECURSIVE SortNewestFirst(_, _)
SortNewestFirst(fs, S) ==
  IF S = {} THEN <<>>
  ELSE LET k == CHOOSE x \in S : \A y \in S : fs[x].atime >= fs[y].atime
       IN <<Entry(fs, k)>> \o SortNewestFirst(fs, S \ {k})

\* utils.py:415-423 and 433, files.sort(key=lambda x: x[1]): the entries of
\* the files S by st_atime, oldest first.  (Files of equal st_atime keep the
\* order of os.walk, which the filesystem decides; every file of the model
\* has its own st_atime.)
RECURSIVE SortByAtime(_, _)
SortByAtime(fs, S) ==
  IF S = {} THEN <<>>
  ELSE LET k == CHOOSE x \in S : \A y \in S : fs[x].atime <= fs[y].atime
       IN <<Entry(fs, k)>> \o SortByAtime(fs, S \ {k})

\* Mutant of UnderLimit: a directory exactly at the limit is swept.
UnderLimitStrict(total_size_mb, max_size_mb) == total_size_mb < max_size_mb

\* utils.py:429, the test that ends the sweep before it removes anything:
\* total_size_mb <= max_size_mb.
UnderLimit(total_size_mb, max_size_mb) == total_size_mb <= max_size_mb

\* Mutant of AtTarget: the loop stops at max_size_mb itself.
AtTargetNoBand(total_size_mb, max_size_mb) == total_size_mb <= max_size_mb

\* utils.py:437, the test that ends the removal loop:
\* total_size_mb <= max_size_mb * 0.9.
AtTarget(total_size_mb, max_size_mb) == total_size_mb * 10 <= max_size_mb * 9

\* utils.py:440-444, one pass of the loop body on entry e; raises: whether
\* os.remove raises OSError.  st: [files, total, deleted, failed].
RemoveOne(st, e, raises) ==
  IF raises
    THEN [st EXCEPT !.failed = @ \cup {e.name}]
    ELSE [files   |-> Remove(st.files, e.name),
          total   |-> st.total - e.mb,
          deleted |-> Append(st.deleted, e),
          failed  |-> st.failed]

\* Mutant of RemoveLoop: the first os.remove that raises ends the loop.
RECURSIVE RemoveLoopHalts(_, _, _, _, _)
RemoveLoopHalts(sorted, i, st, max_size_mb, delFail) ==
  IF i > Len(sorted) THEN st
  ELSE IF AtTarget(st.total, max_size_mb) THEN st
  ELSE IF sorted[i].name \in delFail THEN RemoveOne(st, sorted[i], TRUE)
  ELSE RemoveLoopHalts(sorted, i + 1, RemoveOne(st, sorted[i], FALSE),
                       max_size_mb, delFail)

\* utils.py:436-444, the removal loop from position i of the sorted list.
\* delFail: the files whose os.remove raises OSError.
RECURSIVE RemoveLoop(_, _, _, _, _)
RemoveLoop(sorted, i, st, max_size_mb, delFail) ==
  IF i > Len(sorted) THEN st
  ELSE IF AtTarget(st.total, max_size_mb) THEN st
  ELSE RemoveLoop(sorted, i + 1,
                  RemoveOne(st, sorted[i], sorted[i].name \in delFail),
                  max_size_mb, delFail)

\* Mutant of OsWalk: the walk starts at the parent of cache_dir.
OsWalkParent(fs) == fs @@ outside

\* utils.py:415-417, os.walk(cache_dir) with os.path.join(root, filename):
\* the paths listed are those of the files under cache_dir (fs).
OsWalk(fs) == fs

\* utils.py:405-447.  The result: the files left, the entries removed in
\* order, the names whose removal failed, the total the walk found, and
\* whether the directory was walked.
cleanup_cache(fs, dir, max_size_mb, delFail) ==
  LET walked == OsWalk(fs)
      st0 == [files |-> walked, total |-> TotalMB(walked),
              deleted |-> <<>>, failed |-> {}]
  IN IF ~dir
       THEN [files |-> fs, deleted |-> <<>>, failed |-> {},
             total |-> 0, walked |-> FALSE]
     ELSE IF UnderLimit(st0.total, max_size_mb)
       THEN [files |-> fs, deleted |-> <<>>, failed |-> {},
             total |-> st0.total, walked |-> TRUE]
     ELSE LET st == RemoveLoop(SortByAtime(walked, DOMAIN walked), 1, st0,
                               max_size_mb, delFail)
          IN [files |-> st.files, deleted |-> st.deleted,
              failed |-> st.failed, total |-> st0.total, walked |-> TRUE]

(***************************************************************************)
(* get_cached_thumbnail_path, utils.py:370-403.                             *)
(***************************************************************************)

\* What the environment does to one call.
\*   makedirs : os.makedirs succeeds when the directory is missing
\*   net      : "ok", or where the call raises:
\*              "request_error"  requests.get / raise_for_status (386-387)
\*              "open_error"     open(cache_path, 'wb') (390)
\*              "stream_error"   response.iter_content, after `at` chunks (391)
\*              "write_error"    f.write, after `at` chunks (394)
\*   delFail  : the files whose os.remove raises in the sweep
NetOutcomes ==
  {"ok", "request_error", "open_error", "stream_error", "write_error"}

\* The first n chunks of a body.
Prefix(body, n) == SubSeq(body, 1, n)

\* utils.py:390, open(cache_path, 'wb'): the file is created under its final
\* name (or truncated, keeping its st_atime) and is empty.
OpenWb(fs, k, t) ==
  Put(fs, k, [data |-> <<>>,
              atime |-> IF k \in DOMAIN fs THEN fs[k].atime ELSE t])

\* Mutant of Exists: the test looks at another path and never finds the file.
ExistsNever(fs, k) == FALSE

\* utils.py:382, os.path.exists(cache_path).
Exists(fs, k) == k \in DOMAIN fs

\* Mutant of OnHit: the hit removes the file it found.
OnHitRemoves(fs, k, t) == Remove(fs, k)

\* utils.py:382-383, the cache hit: the path is returned and the file is
\* not touched.
OnHit(fs, k, t) == fs

\* utils.py:396-397, the sweep after the file is written.
SweepAfterWrite(fs, dir, delFail) ==
  cleanup_cache(fs, dir, budget, delFail)

\* Mutant of Except: the exception leaves the function.
ExceptReraises(outcome) == "raised"

\* utils.py:401-403, the handler of the try that holds the whole body: the
\* exception is logged and the call returns None.
Except(outcome) == None

\* The result of a call that stops before the sweep.
Stopped(fs, dir, t, outcome, gets) ==
  [files |-> fs, dirExists |-> dir, now |-> t, ret |-> Except(outcome),
   outcome |-> outcome, gets |-> gets, sweeps |-> 0,
   sweepTotal |-> 0, deleted |-> <<>>, failed |-> {}]

\* Mutant of OnMakedirsError: the directory is made after the download.
OnMakedirsErrorAfterGet(fs, dir, t) ==
  Stopped(fs, dir, t, "makedirs_error", 1)

\* utils.py:374 and 401-403: os.makedirs is the first statement; when it
\* raises nothing has been requested or written.
OnMakedirsError(fs, dir, t) == Stopped(fs, dir, t, "makedirs_error", 0)

\* Mutant of OnRequestError: the file is opened before the request.
OnRequestErrorOpened(fs, k, t) == OpenWb(fs, k, t)

\* utils.py:386-390: requests.get and raise_for_status come before
\* open(cache_path, 'wb'); when they raise no file has been created.
OnRequestError(fs, k, t) == fs

\* Mutant of Requests: a GET that raised is issued a second time.
RequestsRetried(outcome) == IF outcome = "request_error" THEN 2 ELSE 1

\* utils.py:386, the calls of requests.get in a call that has passed the
\* exists test: the one statement, in no loop, whatever comes after it.
Requests(outcome) == 1

\* utils.py:370-403, one whole call.
get_cached_thumbnail_path(fs, dir, t, srv, url, env) ==
  LET filename == Filename(url)
      body == Body(srv, url)
      opened == OpenWb(fs, filename, t)
  IN IF ~dir /\ ~env.makedirs
       THEN OnMakedirsError(fs, dir, t)
     ELSE IF Exists(fs, filename)
       THEN [Stopped(OnHit(fs, filename, t), TRUE, t, "hit", 0)
               EXCEPT !.ret = filename]
     ELSE IF env.net = "request_error"
       THEN Stopped(OnRequestError(fs, filename, t), TRUE, t,
                    "request_error", Requests("request_error"))
     ELSE IF env.net = "open_error"
       THEN Stopped(fs, TRUE, t, "open_error", Requests("open_error"))
     ELSE IF env.net \in {"stream_error", "write_error"}
       THEN Stopped([opened EXCEPT ![filename].data = Prefix(body, env.at)],
                    TRUE, t + 1, env.net, Requests(env.net))
     ELSE LET written == [opened EXCEPT ![filename].data = body]
              sw == SweepAfterWrite(written, TRUE, env.delFail)
          IN [files |-> sw.files, dirExists |-> TRUE, now |-> t + 1,
              ret |-> filename, outcome |-> "ok",
              gets |-> Requests("ok"), sweeps |-> 1,
              sweepTotal |-> sw.total, deleted |-> sw.deleted,
              failed |-> sw.failed]

\* The files whose removal a sweep of fs can attempt.
Candidates(fs, max_size_mb) ==
  IF UnderLimit(TotalMB(fs), max_size_mb) THEN {} ELSE DOMAIN fs

\* The environments in which a call for url can end as `outcome`.  Only
\* what the call reads of its environment is enumerated; delFails are the
\* sets of failing removals to consider.
Envs(srv, url, outcome, delFails) ==
  [makedirs : {outcome # "makedirs_error"},
   net : IF outcome \in NetOutcomes THEN {outcome} ELSE {"ok"},
   at : IF outcome \in {"stream_error", "write_error"}
          THEN 0..(Len(srv[url]) - 1) ELSE {0},
   delFail : IF outcome = "ok" THEN delFails ELSE {{}}]

\* Every os.remove succeeds.
NoDelFail == {{}}

(***************************************************************************)
(* Spec: the calls run one after another.                                   *)
(***************************************************************************)

\* The variables the sequential steps leave alone.
others == <<script, threads, budget, downloaded, hashSeed, mem>>

\* The seed of the first process.
FirstSeed == "s1"

\* The memory management is not part of the run.
NoMem == <<>>

\* The disk holds no file outside cache_dir.
NoOutside == <<>>

\* No key has been downloaded.
NoneDownloaded == [got |-> {}, stored |-> {}]

NoCall ==
  [op |-> "none", url |-> CHOOSE u \in URLs : TRUE, ret |-> None,
   outcome |-> "none", gets |-> 0, sweeps |-> 0,
   sweepTotal |-> 0, deleted |-> <<>>, failed |-> {}]

Init ==
  /\ served \in [SpecURLs -> Bodies]
  /\ dirExists = FALSE
  /\ files = <<>>
  /\ now = 0
  /\ last = NoCall
  /\ script = 0
  /\ threads = <<>>
  /\ budget = MAX_CACHE_SIZE_MB
  /\ downloaded = NoneDownloaded
  /\ hashSeed = FirstSeed
  /\ mem = NoMem
  /\ outside = NoOutside

\* One call get_cached_thumbnail_path(url, cache_dir) that ends as `outcome`.
Fetch(url, outcome, delFails) ==
  \E env \in Envs(served, url, outcome, delFails) :
  \E r \in {get_cached_thumbnail_path(files, dirExists, now, served, url, env)} :
    /\ r.outcome = outcome
    /\ files' = InCacheDir(r.files)
    /\ outside' = Unlinked(outside, r.deleted)
    /\ dirExists' = r.dirExists
    /\ now' = r.now
    /\ last' = [op |-> "fetch", url |-> url, ret |-> r.ret,
                outcome |-> r.outcome, gets |-> r.gets,
                sweeps |-> r.sweeps, sweepTotal |-> r.sweepTotal,
                deleted |-> r.deleted, failed |-> r.failed]
    /\ UNCHANGED served

FetchHit(url) == Fetch(url, "hit", NoDelFail)
FetchMakedirsError(url) == Fetch(url, "makedirs_error", NoDelFail)
FetchRequestError(url) == Fetch(url, "request_error", NoDelFail)
FetchOpenError(url) == Fetch(url, "open_error", NoDelFail)
FetchStreamError(url) == Fetch(url, "stream_error", NoDelFail)
FetchWriteError(url) == Fetch(url, "write_error", NoDelFail)
FetchOk(url) == Fetch(url, "ok", NoDelFail)

\* One call cleanup_cache(cache_dir, MAX_CACHE_SIZE_MB) on its own.
Sweep(delFails) ==
  \E delFail \in delFails :
  \E sw \in {cleanup_cache(files, dirExists, budget, delFail)} :
    /\ files' = InCacheDir(sw.files)
    /\ outside' = Unlinked(outside, sw.deleted)
    /\ last' = [op |-> "sweep", url |-> NoCall.url, ret |-> None,
                outcome |-> IF sw.walked THEN "walked" ELSE "no_dir",
                gets |-> 0, sweeps |-> 1, sweepTotal |-> sw.total,
                deleted |-> sw.deleted, failed |-> sw.failed]
    /\ UNCHANGED <<served, dirExists, now>>

SweepOk == Sweep(NoDelFail)

\* The bound of Spec on the clock.
InTime == now' <= MaxTime

Next ==
  \/ \E url \in DOMAIN served :
       FetchHit(url) /\ InTime /\ UNCHANGED others
  \/ \E url \in DOMAIN served :
       FetchMakedirsError(url) /\ InTime /\ UNCHANGED others
  \/ \E url \in DOMAIN served :
       FetchRequestError(url) /\ InTime /\ UNCHANGED others
  \/ \E url \in DOMAIN served :
       FetchOpenError(url) /\ InTime /\ UNCHANGED others
  \/ \E url \in DOMAIN served :
       FetchStreamError(url) /\ InTime /\ UNCHANGED others
  \/ \E url \in DOMAIN served :
       FetchWriteError(url) /\ InTime /\ UNCHANGED others
  \/ \E url \in DOMAIN served :
       FetchOk(url) /\ InTime /\ UNCHANGED others
  \/ SweepOk /\ UNCHANGED others

Spec == Init /\ [][Next]_vars

(***************************************************************************)
(* SpecBestEffort: the calls of Spec, and calls in whose sweep os.remove    *)
(* raises OSError for some of the files.                                    *)
(***************************************************************************)

\* The smallest body served in SpecBestEffort, in MB: three bodies put
\* cache_dir over the limit.
MinBodyMB == MAX_CACHE_SIZE_MB \div 2

InitBestEffort ==
  /\ Init
  /\ \A u \in DOMAIN served : SumMB(Body(served, u)) >= MinBodyMB

\* The non-empty sets of files whose removal can fail in a sweep of fs.
DelFails(fs, max_size_mb) == (SUBSET Candidates(fs, max_size_mb)) \ {{}}

\* The files once the body of url is written.
Written(fs, srv, url, t) ==
  Put(fs, Filename(url), [data |-> Body(srv, url), atime |-> t])

\* A call that downloads url and whose sweep meets failing removals.
FetchOkDelFail(url) ==
  Fetch(url, "ok", DelFails(Written(files, served, url, now), budget))

\* A sweep on its own that meets failing removals.
SweepDelFail == Sweep(DelFails(files, budget))

NextBestEffort ==
  \/ Next
  \/ \E url \in DOMAIN served :
       FetchOkDelFail(url) /\ InTime /\ UNCHANGED others
  \/ SweepDelFail /\ UNCHANGED others

SpecBestEffort == InitBestEffort /\ [][NextBestEffort]_vars

(***************************************************************************)
(* SpecOnce: the calls of Spec, with the record of the keys downloaded.     *)
(***************************************************************************)

\* The outcomes in which requests.get and raise_for_status succeeded.
GotOutcomes == {"open_error", "stream_error", "write_error", "ok"}

\* The keys of `keys`, with the key of call c when it ended in one of
\* `outcomes`, less the keys whose file the sweep of c removed.
Recorded(keys, c, outcomes) ==
  (keys \cup IF c.op = "fetch" /\ c.outcome \in outcomes
               THEN {Filename(c.url)} ELSE {}) \ Names(c.deleted)

\* The record follows the call just made.
Track ==
  downloaded' = [got |-> Recorded(downloaded.got, last', GotOutcomes),
                 stored |-> Recorded(downloaded.stored, last', {"ok"})]

\* A step of Spec, recorded.
Tracked(A) ==
  A /\ InTime /\ Track /\ UNCHANGED <<script, threads, budget, hashSeed, mem>>

NextOnce ==
  \/ \E url \in DOMAIN served : Tracked(FetchHit(url))
  \/ \E url \in DOMAIN served : Tracked(FetchMakedirsError(url))
  \/ \E url \in DOMAIN served : Tracked(FetchRequestError(url))
  \/ \E url \in DOMAIN served : Tracked(FetchOpenError(url))
  \/ \E url \in DOMAIN served : Tracked(FetchStreamError(url))
  \/ \E url \in DOMAIN served : Tracked(FetchWriteError(url))
  \/ \E url \in DOMAIN served : Tracked(FetchOk(url))
  \/ Tracked(SweepOk)

SpecOnce == Init /\ [][NextOnce]_vars

(***************************************************************************)
(* SpecLRU: the run "A, B, C are written in that order, A is fetched again  *)
(* and hits, a fourth entry D is written", for every choice of the bodies.  *)
(***************************************************************************)

UrlOf(base) == CHOOSE u \in URLs : u.base = base

InitLRU ==
  /\ served \in [URLs -> Bodies]
  /\ dirExists = FALSE
  /\ files = <<>>
  /\ now = 0
  /\ last = NoCall
  /\ script = 0
  /\ threads = <<>>
  /\ budget = MAX_CACHE_SIZE_MB
  /\ downloaded = NoneDownloaded
  /\ hashSeed = FirstSeed
  /\ mem = NoMem
  /\ outside = NoOutside

WriteA == script = 0 /\ FetchOk(UrlOf("a.jpg")) /\ script' = 1
WriteB == script = 1 /\ FetchOk(UrlOf("b.jpg")) /\ script' = 2
WriteC == script = 2 /\ FetchOk(UrlOf("c.jpg")) /\ script' = 3
HitA   == script = 3 /\ FetchHit(UrlOf("a.jpg")) /\ script' = 4
WriteD == script = 4 /\ FetchOk(UrlOf("d.jpg")) /\ script' = 5

NextLRU ==
  \/ WriteA /\ UNCHANGED <<threads, budget, downloaded, hashSeed, mem>>
  \/ WriteB /\ UNCHANGED <<threads, budget, downloaded, hashSeed, mem>>
  \/ WriteC /\ UNCHANGED <<threads, budget, downloaded, hashSeed, mem>>
  \/ HitA /\ UNCHANGED <<threads, budget, downloaded, hashSeed, mem>>
  \/ WriteD /\ UNCHANGED <<threads, budget, downloaded, hashSeed, mem>>

SpecLRU == InitLRU /\ [][NextLRU]_vars

\* The names a sweep removed.
DeletedNames == { last.deleted[i].name : i \in 1..Len(last.deleted) }

\* C6: with A, B, C written in that order, A hit, and a fourth write whose
\* sweep removes exactly one file, the file removed is B, and A and C are
\* still present.
C6_LRUOrder ==
  (/\ script = 5
   /\ {"a.jpg", "b.jpg", "c.jpg"} \subseteq (DOMAIN files \cup DeletedNames)
   /\ Len(last.deleted) = 1) =>
    /\ last.deleted[1].name = "b.jpg"
    /\ {"a.jpg", "c.jpg"} \subseteq DOMAIN files

(***************************************************************************)
(* SpecE2E: five images of 300 KB are fetched one after another into an     *)
(* empty cache_dir, the limit being 1 MB.  Sizes are in bytes here, and so  *)
(* is the limit: st_size / (1024 * 1024) <= max_size_mb is st_size <=       *)
(* max_size_mb * 1024 * 1024, and fractions of 2^20 are exact in a float.   *)
(***************************************************************************)

\* The module global MAX_CACHE_SIZE_MB set to 1, in bytes.
OneMB == 1024 * 1024

\* st_size of one image.
ImageBytes == 300 * 1024

\* The URLs of the five images, in the order they are fetched.
E2EOrder ==
  << UrlOf("a.jpg"), UrlOf("b.jpg"), UrlOf("c.jpg"), UrlOf("d.jpg"),
     [host |-> "h1", base |-> "e.jpg"] >>

E2EURLs == { E2EOrder[n] : n \in 1..Len(E2EOrder) }

\* An image arrives as one chunk or as two.
E2EBodies == { <<ImageBytes>>, <<ImageBytes \div 2, ImageBytes \div 2>> }

InitE2E ==
  /\ served \in [E2EURLs -> E2EBodies]
  /\ dirExists = FALSE
  /\ files = <<>>
  /\ now = 0
  /\ last = NoCall
  /\ script = 0
  /\ threads = <<>>
  /\ budget = OneMB
  /\ downloaded = NoneDownloaded
  /\ hashSeed = FirstSeed
  /\ mem = NoMem
  /\ outside = NoOutside

\* The n-th call of the scenario downloads the n-th image.
FetchNth(n) ==
  /\ script = n - 1
  /\ FetchOk(E2EOrder[n])
  /\ script' = n
  /\ UNCHANGED <<threads, budget, downloaded, hashSeed, mem>>

NextE2E == \E n \in 1..Len(E2EOrder) : FetchNth(n)

SpecE2E == InitE2E /\ [][NextE2E]_vars

(***************************************************************************)
(* SpecConfined: the calls of Spec on a disk that also holds files that     *)
(* are not under cache_dir, older and larger than anything in it.           *)
(***************************************************************************)

\* The paths of the files outside cache_dir.
OutsidePaths == {"../x.jpg", "../other/y.jpg"}

\* The file at an outside path: older than every file of cache_dir, and
\* of a size that alone takes a directory it is counted in over the limit.
OutsideFile(path) ==
  [data |-> <<[url |-> path, idx |-> 1, mb |-> MAX_CACHE_SIZE_MB + 1]>>,
   atime |-> -1]

InitConfined ==
  /\ served \in [SpecURLs -> Bodies]
  /\ \A u \in DOMAIN served : SumMB(Body(served, u)) >= MinBodyMB
  /\ dirExists = FALSE
  /\ files = <<>>
  /\ now = 0
  /\ last = NoCall
  /\ script = 0
  /\ threads = <<>>
  /\ budget = MAX_CACHE_SIZE_MB
  /\ downloaded = NoneDownloaded
  /\ hashSeed = FirstSeed
  /\ mem = NoMem
  /\ \E S \in SUBSET OutsidePaths : outside = [p \in S |-> OutsideFile(p)]

SpecConfined == InitConfined /\ [][Next]_vars

(***************************************************************************)
(* SpecKey: successful calls for URLs of two hosts, two of which have the   *)
(* same basename and two no basename at all.  The files of cache_dir stay   *)
(* on disk when the application exits; the next process hashes str with    *)
(* the seed it draws at its start.                                          *)
(***************************************************************************)

Seeds == {FirstSeed, "s2"}

KeyURLs ==
  { [host |-> "h1", base |-> "a.jpg"], [host |-> "h2", base |-> "a.jpg"],
    [host |-> "h1", base |-> ""], [host |-> "h2", base |-> ""] }

\* Bodies small enough for no sweep to remove a file.
KeyBodies == { b \in Bodies : Len(b) = 1 \/ b[1] < MAX_CACHE_SIZE_MB \div 4 }

InitKey ==
  /\ served \in [KeyURLs -> KeyBodies]
  /\ dirExists = FALSE
  /\ files = <<>>
  /\ now = 0
  /\ last = NoCall
  /\ script = 0
  /\ threads = <<>>
  /\ budget = MAX_CACHE_SIZE_MB
  /\ downloaded = NoneDownloaded
  /\ hashSeed \in Seeds
  /\ mem = NoMem
  /\ outside = NoOutside

\* The application exits and is started again: the new process draws its
\* seed; cache_dir is as the old process left it.
Restart ==
  /\ hashSeed' \in Seeds
  /\ UNCHANGED <<served, dirExists, files, now, last, script, threads,
                 budget, downloaded, mem, outside>>

NextKey ==
  \/ \E url \in DOMAIN served : FetchOk(url) /\ InTime /\ UNCHANGED others
  \/ \E url \in DOMAIN served : FetchHit(url) /\ UNCHANGED others
  \/ Restart

SpecKey == InitKey /\ [][NextKey]_vars

(***************************************************************************)
(* SpecConc: threads run get_cached_thumbnail_path at the same time, one    *)
(* step per system call.  Each thread has its own file object (its own      *)
(* offset); a file removed while open goes on being written through the     *)
(* thread's descriptor but is no longer in the directory.                   *)
(***************************************************************************)

\* Bound of the model: the calls one thread makes.
MaxCalls == 2

Threads == {1, 2}

\* The URLs the threads fetch; their file names differ, so all writers of
\* one file write the same body.
ConcURLs == { u \in URLs : u.base \in {"a.jpg", "b.jpg"} }

\* A thread outside get_cached_thumbnail_path.
\*   pos      : chunks written through the thread's file object
\*   attached : the thread's file object is the file of that name
\*   plan     : the sorted entries the removal loop has still to visit
\*   total    : total_size_mb of the sweep
\*   seen     : the file at the returned path when the call returned
\*   sweeps   : the calls of cleanup_cache the call has made (history)
Idle ==
  [pc |-> "idle", url |-> NoCall.url, pos |-> 0, attached |-> FALSE,
   plan |-> <<>>, total |-> 0, ret |-> None, outcome |-> "none",
   seen |-> [exists |-> FALSE, data |-> <<>>], calls |-> 0, sweeps |-> 0]

InitConc ==
  /\ served \in [ConcURLs -> Bodies]
  /\ dirExists = FALSE
  /\ files = <<>>
  /\ now = 0
  /\ last = NoCall
  /\ script = 0
  /\ threads = [t \in Threads |-> Idle]
  /\ budget = MAX_CACHE_SIZE_MB
  /\ downloaded = NoneDownloaded
  /\ hashSeed = FirstSeed
  /\ mem = NoMem
  /\ outside = NoOutside

\* The file at path k, as a reader finds it.
Seen(fs, k) ==
  IF k \in DOMAIN fs THEN [exists |-> TRUE, data |-> fs[k].data]
  ELSE [exists |-> FALSE, data |-> <<>>]

\* The thread returns ret.
Returned(th, ret, outcome, fs) ==
  [th EXCEPT !.pc = "done", !.ret = ret, !.outcome = outcome,
             !.seen = Seen(fs, ret)]

\* utils.py:394, f.write(chunk) at offset pos of file k: the chunk replaces
\* what is at that offset; an offset past the end leaves a hole of the size
\* of the chunks the thread wrote before.
WriteAt(fs, k, pos, body) ==
  LET old == fs[k].data
      at(i) == IF i = pos + 1 THEN body[i]
               ELSE IF i <= Len(old) THEN old[i]
               ELSE [url |-> body[i].url, idx |-> 0, mb |-> body[i].mb]
      len == IF Len(old) > pos + 1 THEN Len(old) ELSE pos + 1
  IN [fs EXCEPT ![k].data = [i \in 1..len |-> at(i)]]

\* utils.py:370-374: the call starts; os.makedirs(cache_dir, exist_ok=True).
Call(t, url) ==
  /\ threads[t].pc = "idle"
  /\ threads[t].calls < MaxCalls
  /\ threads' = [threads EXCEPT ![t] =
                   [Idle EXCEPT !.pc = "exists", !.url = url,
                                !.calls = threads[t].calls + 1]]
  /\ dirExists' = TRUE
  /\ UNCHANGED <<served, files, now, last, script,
               budget, downloaded, hashSeed, mem, outside>>

\* utils.py:381-383: os.path.exists(cache_path), and the return of a hit.
CheckExists(t) ==
  LET th == threads[t]
      k == Filename(th.url)
  IN /\ th.pc = "exists"
     /\ IF Exists(files, k)
          THEN /\ files' = OnHit(files, k, now)
               /\ threads' = [threads EXCEPT ![t] =
                                Returned(th, k, "hit", files')]
          ELSE /\ files' = files
               /\ threads' = [threads EXCEPT ![t].pc = "get"]
     /\ UNCHANGED <<served, dirExists, now, last, script,
               budget, downloaded, hashSeed, mem, outside>>

\* utils.py:386-387: the GET succeeds.
Get(t) ==
  /\ threads[t].pc = "get"
  /\ threads' = [threads EXCEPT ![t].pc = "open"]
  /\ UNCHANGED <<served, dirExists, files, now, last, script,
               budget, downloaded, hashSeed, mem, outside>>

\* utils.py:386-387 and 401-403: the GET raises, the call returns None.
GetRaises(t) ==
  /\ threads[t].pc = "get"
  /\ threads' = [threads EXCEPT ![t] =
                   Returned(threads[t], None, "request_error", files)]
  /\ UNCHANGED <<served, dirExists, files, now, last, script,
               budget, downloaded, hashSeed, mem, outside>>

\* utils.py:390: open(cache_path, 'wb').
Open(t) ==
  LET k == Filename(threads[t].url)
  IN /\ threads[t].pc = "open"
     /\ files' = OpenWb(files, k, now)
     /\ now' = now + 1
     /\ threads' = [threads EXCEPT ![t].pc = "write", ![t].pos = 0,
                                   ![t].attached = TRUE]
     /\ UNCHANGED <<served, dirExists, last, script,
               budget, downloaded, hashSeed, mem, outside>>

\* utils.py:391-394: the next chunk is received and written.
WriteChunk(t) ==
  LET th == threads[t]
      k == Filename(th.url)
      body == Body(served, th.url)
  IN /\ th.pc = "write"
     /\ th.pos < Len(body)
     /\ files' = IF th.attached THEN WriteAt(files, k, th.pos, body)
                 ELSE files
     /\ threads' = [threads EXCEPT ![t].pos = th.pos + 1]
     /\ UNCHANGED <<served, dirExists, now, last, script,
               budget, downloaded, hashSeed, mem, outside>>

\* utils.py:391 and 401-403: iter_content raises before the body is
\* complete; the file object is closed and the call returns None.
StreamRaises(t) ==
  LET th == threads[t]
  IN /\ th.pc = "write"
     /\ th.pos < Len(Body(served, th.url))
     /\ threads' = [threads EXCEPT ![t] =
                      Returned([th EXCEPT !.attached = FALSE], None,
                               "stream_error", files)]
     /\ UNCHANGED <<served, dirExists, files, now, last, script,
               budget, downloaded, hashSeed, mem, outside>>

\* utils.py:397-433, cleanup_cache walks the directory, totals the sizes
\* and sorts the entries when the total is over the limit.
Walked(th, fs) ==
  LET total == TotalMB(fs)
      swept == [th EXCEPT !.attached = FALSE, !.sweeps = @ + 1]
  IN IF UnderLimit(total, budget)
       THEN [swept EXCEPT !.pc = "return"]
       ELSE [swept EXCEPT !.pc = "remove", !.total = total,
                          !.plan = SortByAtime(fs, DOMAIN fs)]

\* Mutant of Walk: cleanup_cache is called inside the loop that writes the
\* chunks, before the last one.
WalkEarly(t) ==
  /\ threads[t].pc = "write"
  /\ threads[t].pos < Len(Body(served, threads[t].url))
  /\ threads' = [threads EXCEPT ![t] = Walked(threads[t], files)]
  /\ UNCHANGED <<served, dirExists, files, now, last, script,
               budget, downloaded, hashSeed, mem, outside>>

\* utils.py:391-430: the loop over the chunks has ended, the with block
\* has closed the file, and cleanup_cache walks the directory.
Walk(t) ==
  LET th == threads[t]
  IN /\ th.pc = "write"
     /\ th.pos = Len(Body(served, th.url))
     /\ threads' = [threads EXCEPT ![t] = Walked(th, files)]
     /\ UNCHANGED <<served, dirExists, files, now, last, script,
               budget, downloaded, hashSeed, mem, outside>>

\* utils.py:436-444: one pass of the removal loop.  os.remove of a file
\* that is gone raises FileNotFoundError, an OSError.
RemoveStep(t) ==
  LET th == threads[t]
  IN /\ th.pc = "remove"
     /\ IF th.plan = <<>> \/ AtTarget(th.total, budget)
          THEN /\ threads' = [threads EXCEPT ![t].pc = "return",
                                             ![t].plan = <<>>]
               /\ files' = files
          ELSE LET e == Head(th.plan)
                   st == RemoveOne([files |-> files, total |-> th.total,
                                    deleted |-> <<>>, failed |-> {}],
                                   e, e.name \notin DOMAIN files)
               IN /\ files' = st.files
                  /\ threads' =
                       [u \in Threads |->
                          IF u = t
                            THEN [th EXCEPT !.plan = Tail(th.plan),
                                            !.total = st.total]
                          ELSE IF Filename(threads[u].url) = e.name
                            THEN [threads[u] EXCEPT !.attached = FALSE]
                          ELSE threads[u]]
     /\ UNCHANGED <<served, dirExists, now, last, script,
               budget, downloaded, hashSeed, mem, outside>>

\* utils.py:399: return cache_path.
Return(t) ==
  /\ threads[t].pc = "return"
  /\ threads' = [threads EXCEPT ![t] =
                   Returned(threads[t], Filename(threads[t].url), "ok", files)]
  /\ UNCHANGED <<served, dirExists, files, now, last, script,
               budget, downloaded, hashSeed, mem, outside>>

\* The caller takes the result; the thread can make its next call.
Collect(t) ==
  /\ threads[t].pc = "done"
  /\ threads' = [threads EXCEPT ![t] =
                   [Idle EXCEPT !.calls = threads[t].calls]]
  /\ UNCHANGED <<served, dirExists, files, now, last, script,
               budget, downloaded, hashSeed, mem, outside>>

NextConc ==
  \/ \E t \in Threads : \E url \in DOMAIN served : Call(t, url)
  \/ \E t \in Threads : CheckExists(t)
  \/ \E t \in Threads : Get(t)
  \/ \E t \in Threads : GetRaises(t)
  \/ \E t \in Threads : Open(t)
  \/ \E t \in Threads : WriteChunk(t)
  \/ \E t \in Threads : StreamRaises(t)
  \/ \E t \in Threads : Walk(t)
  \/ \E t \in Threads : RemoveStep(t)
  \/ \E t \in Threads : Return(t)
  \/ \E t \in Threads : Collect(t)

SpecConc == InitConc /\ [][NextConc]_vars

(***************************************************************************)
(* SpecTwin: on an empty cache_dir each thread makes one call, both for     *)
(* the same URL, the second call starting while the first is in progress.   *)
(***************************************************************************)

\* The URL both calls fetch.
TwinURL == UrlOf("a.jpg")

\* A call of some thread is in progress.
InProgress(t) == threads[t].pc \notin {"idle", "done"}

\* utils.py:370-374: thread t makes its one call; the second caller starts
\* while the first call is in progress.
TwinCall(t) ==
  /\ threads[t].calls = 0
  /\ \A u \in Threads \ {t} : threads[u].calls = 0 \/ InProgress(u)
  /\ Call(t, TwinURL)

NextTwin ==
  \/ \E t \in Threads : TwinCall(t)
  \/ \E t \in Threads : CheckExists(t)
  \/ \E t \in Threads : Get(t)
  \/ \E t \in Threads : Open(t)
  \/ \E t \in Threads : WriteChunk(t)
  \/ \E t \in Threads : Walk(t)
  \/ \E t \in Threads : RemoveStep(t)
  \/ \E t \in Threads : Return(t)

SpecTwin == InitConc /\ [][NextTwin]_vars

\* C10: whenever a call returns a path as a cache hit, the file at that path
\* holds the complete body of the download.
C10_HitSeesCompleteFile ==
  \A t \in DOMAIN threads :
    (threads[t].pc = "done" /\ threads[t].outcome = "hit") =>
      /\ threads[t].seen.exists
      /\ threads[t].seen.data = Body(served, threads[t].url)

(***************************************************************************)
(* Properties of the calls run one after another (Spec).                    *)
(***************************************************************************)

\* The contents of the files, without their timestamps.
Contents(fs) == [k \in DOMAIN fs |-> fs[k].data]

\* C1: whenever no call is in progress, the files of cache_dir total at most
\* max_size_bytes, or exactly one file remains and it alone exceeds
\* max_size_bytes.
C1_BudgetInvariant ==
  \/ TotalMB(files) <= MAX_CACHE_SIZE_MB
  \/ /\ Cardinality(DOMAIN files) = 1
     /\ \A k \in DOMAIN files : StSize(files[k]) > MAX_CACHE_SIZE_MB

\* C2: in every sweep, every file removed has an access time no later than
\* the access time of every file that survives the sweep.
C2_LRUVictims ==
  last.sweeps = 1 =>
    \A i \in 1..Len(last.deleted) : \A k \in DOMAIN files :
      last.deleted[i].atime <= files[k].atime

\* A sweep removed a file and left two.
C2_Witness ==
  /\ last.sweeps = 1
  /\ Len(last.deleted) >= 1
  /\ Cardinality(DOMAIN files) >= 2

\* C3: a sweep that starts with the total above max_size_bytes ends with the
\* total at most 0.9 * max_size_bytes, and with the last file it removed
\* put back the total would be above 0.9 * max_size_bytes.
C3_HysteresisTarget ==
  (last.sweeps = 1 /\ last.sweepTotal > MAX_CACHE_SIZE_MB) =>
    /\ 10 * TotalMB(files) <= 9 * MAX_CACHE_SIZE_MB
    /\ Len(last.deleted) >= 1
    /\ 10 * (TotalMB(files) + last.deleted[Len(last.deleted)].mb)
         > 9 * MAX_CACHE_SIZE_MB

\* A sweep started above the budget and left a file.
C3_Witness ==
  /\ last.sweeps = 1
  /\ last.sweepTotal > MAX_CACHE_SIZE_MB
  /\ DOMAIN files # {}

\* C4: a call made while cache_dir/key(url) exists returns that path, issues
\* no GET, runs no sweep, and leaves the set of files and their contents as
\* they were.
C4_HitAvoidsNetwork ==
  [][(last'.op = "fetch" /\ Filename(last'.url) \in DOMAIN files) =>
       /\ last'.ret = Filename(last'.url)
       /\ last'.gets = 0
       /\ last'.sweeps = 0
       /\ Contents(files') = Contents(files)]_vars

\* A call found its file.
C4_Witness ==
  /\ last.op = "fetch"
  /\ last.outcome = "hit"
  /\ last.ret \in DOMAIN files

\* C5: right after a hit on key k, the access time of k is at least that of
\* every other file of cache_dir.
C5_HitRefreshesRecency ==
  (last.op = "fetch" /\ last.outcome = "hit") =>
    \A k \in DOMAIN files :
      files[Filename(last.url)].atime >= files[k].atime

\* C7: a call on an empty cache_dir whose GET succeeds returns
\* cache_dir/key(url), and the file exists and holds the bytes served.
C7_MissPopulatesCache ==
  [][(last'.op = "fetch" /\ last'.outcome = "ok" /\ DOMAIN files = {}) =>
       /\ last'.ret = Filename(last'.url)
       /\ last'.ret \in DOMAIN files'
       /\ files'[last'.ret].data = Body(served, last'.url)]_vars

\* C8: the sweep of a successful miss removes only other files: the path
\* returned names a file that exists.
C8_NewEntrySurvives ==
  (last.op = "fetch" /\ last.outcome = "ok") =>
    /\ last.ret \in DOMAIN files
    /\ \A i \in 1..Len(last.deleted) : last.deleted[i].name # last.ret

\* C9: after a call that failed while receiving or writing the body,
\* cache_dir holds no file for that key.
C9_NoPartialFiles ==
  (last.op = "fetch" /\ last.outcome \in {"stream_error", "write_error"}) =>
    Filename(last.url) \notin DOMAIN files

\* C11: of two calls for the same URL that run at the same time on an empty
\* cache_dir, each returns the path of the URL's file, that file holding at
\* the return exactly the bytes the URL serves, and once both have returned
\* cache_dir holds the file of that key.
C11_TwinFetch ==
  /\ \A t \in Threads :
       (threads[t].pc = "done" /\ threads[t].url = TwinURL) =>
         /\ threads[t].ret = Filename(TwinURL)
         /\ threads[t].seen.exists
         /\ threads[t].seen.data = Body(served, TwinURL)
  /\ (\A t \in Threads : threads[t].pc = "done") =>
       Filename(TwinURL) \in DOMAIN files

\* Thread u is writing the file of its key, and the sweep of another
\* thread, which fetched a different key, is in its removal loop.
WritingDuringSweep(u) ==
  /\ threads[u].pc = "write"
  /\ threads[u].attached
  /\ Filename(threads[u].url) \in DOMAIN files
  /\ \E t \in Threads \ {u} :
       /\ threads[t].pc = "remove"
       /\ Filename(threads[t].url) # Filename(threads[u].url)

\* C12: while a call is writing the file of key k1, no step of the sweep
\* that a finished fetch of another key runs deletes that file.
C12_SweepSparesInFlight ==
  [][\A u \in Threads :
       WritingDuringSweep(u) => Filename(threads[u].url) \in DOMAIN files']_vars

\* C13: a call whose GET fails before any body is received returns None,
\* runs no sweep, and leaves the files of cache_dir and their contents as
\* they were before the call.
C13_RequestErrorLeavesCache ==
  [][(last'.op = "fetch" /\ last'.outcome = "request_error") =>
       /\ last'.ret = None
       /\ last'.gets = 1
       /\ last'.sweeps = 0
       /\ files' = files]_vars

\* A GET has failed on a cache_dir that holds a file.
C13_Witness ==
  /\ last.op = "fetch"
  /\ last.outcome = "request_error"
  /\ last.ret = None
  /\ files # <<>>

\* C19: a sweep that finds cache_dir missing, or the total size of its
\* files at most the limit (the limit itself included), removes no file and
\* leaves every file as it was.
C19_SweepNoOpWithinBudget ==
  [][(last'.sweeps = 1 /\ (~dirExists' \/ last'.sweepTotal <= budget)) =>
       /\ last'.deleted = <<>>
       /\ \A k \in DOMAIN files : k \in DOMAIN files' /\ files'[k] = files[k]
       /\ last'.op = "sweep" => (files' = files /\ dirExists' = dirExists)]_vars

\* A sweep has walked a cache_dir whose total is exactly the limit.
C19_Witness ==
  /\ last.op = "sweep"
  /\ last.outcome = "walked"
  /\ last.sweepTotal = budget
  /\ last.deleted = <<>>
  /\ TotalMB(files) = budget

\* C20: a call that cannot create cache_dir returns None without a GET,
\* without writing a file and without a sweep.
C20_UncreatableDirectory ==
  [][(last'.op = "fetch" /\ last'.outcome = "makedirs_error") =>
       /\ last'.ret = None
       /\ last'.gets = 0
       /\ last'.sweeps = 0
       /\ files' = files
       /\ dirExists' = dirExists]_vars

\* os.makedirs has raised in a call, and cache_dir is still missing.
C20_Witness ==
  /\ last.op = "fetch"
  /\ last.outcome = "makedirs_error"
  /\ last.ret = None
  /\ ~dirExists

\* C14: whatever os.makedirs, the request, the write and the removals of the
\* sweep do, a call returns to its caller the path or None.
C14_FetchNeverFaults ==
  last.op = "fetch" => last.ret \in {None, Filename(last.url)}

\* f.write has raised after the first chunk of a call, and the call has
\* returned None.
C14_Witness ==
  /\ last.op = "fetch"
  /\ last.outcome = "write_error"
  /\ last.ret = None
  /\ Filename(last.url) \in DOMAIN files
  /\ files[Filename(last.url)].data # <<>>

\* C18: in a sweep that found cache_dir over the limit, a file whose
\* removal failed is still there, the sweep went on until the files left
\* total at most 0.9 of the limit or every file left is one whose removal
\* failed, and the call that ran the sweep returns its path.
C18_BestEffortSweep ==
  (last.sweeps = 1 /\ last.sweepTotal > budget) =>
    /\ last.failed \subseteq DOMAIN files
    /\ \/ 10 * TotalMB(files) <= 9 * budget
       \/ DOMAIN files \subseteq last.failed
    /\ last.op = "fetch" =>
         (last.outcome = "ok" /\ last.ret = Filename(last.url))

\* A call has returned its path after a sweep in which a removal failed
\* and a file more recent than the one that stayed was removed.
C18_Witness ==
  /\ last.op = "fetch"
  /\ last.ret = Filename(last.url)
  /\ last.sweepTotal > budget
  /\ \E k \in last.failed : \E i \in 1..Len(last.deleted) :
       /\ k \in DOMAIN files
       /\ files[k].atime < last.deleted[i].atime

\* The outcomes in which the network failed, and those in which the
\* filesystem failed.
NetworkFailures == {"request_error", "stream_error"}
StorageFailures == {"makedirs_error", "open_error", "write_error"}

\* C15: the value a call returns when the network failed differs from the
\* value a call returns when the filesystem failed (compared on two calls
\* that follow one another).
C15_TaggedFailures ==
  [][(/\ last.op = "fetch" /\ last'.op = "fetch"
      /\ last.outcome \in NetworkFailures
      /\ last'.outcome \in StorageFailures) => last'.ret # last.ret]_vars

\* C16: in calls that follow one another, once a GET for a key has
\* succeeded, a later call for that key issues a GET only if a sweep has
\* removed the key's file in between.
C16_OneDownloadPerKey ==
  [][(last'.op = "fetch" /\ last'.gets = 1) =>
       Filename(last'.url) \notin downloaded.got]_vars

\* C16, amended: once a call for a key has downloaded the file and
\* returned its path, a later call for that key issues a GET only if a
\* sweep has removed the key's file in between.
C16_OneStoredDownloadPerKey ==
  [][(last'.op = "fetch" /\ Filename(last'.url) \in downloaded.stored) =>
       /\ last'.gets = 0
       /\ last'.ret = Filename(last'.url)]_vars

\* A call for a key downloaded before, whose file no sweep has removed,
\* has returned without a GET, and cache_dir holds another file too.
C16_Witness ==
  /\ last.op = "fetch"
  /\ last.outcome = "hit"
  /\ last.gets = 0
  /\ Filename(last.url) \in downloaded.stored
  /\ Cardinality(DOMAIN files) >= 2

\* C17: with a limit of 1,048,576 bytes, after five images of 307,200 bytes
\* have been fetched one after another into an empty cache_dir, the files
\* total at most 943,718 bytes, the first and the second image fetched are
\* absent and the other three are present.
C17_EndToEnd ==
  script = Len(E2EOrder) =>
    /\ TotalMB(files) <= 943718
    /\ Filename(E2EOrder[1]) \notin DOMAIN files
    /\ Filename(E2EOrder[2]) \notin DOMAIN files
    /\ \A n \in 3..5 : Filename(E2EOrder[n]) \in DOMAIN files

\* The fifth image has been fetched, and the sweep of that call found
\* cache_dir over the limit and removed a file.
C17_Witness ==
  /\ script = 5
  /\ budget = 1048576
  /\ last.url = E2EOrder[5]
  /\ last.ret = Filename(E2EOrder[5])
  /\ last.sweepTotal = 4 * 307200
  /\ Len(last.deleted) = 1

\* C21: two successful calls for the same URL, one after the other, derive
\* the same key (the basename of the path they return), and cache_dir never
\* holds two files of one key.
C21_DeterministicKey ==
  [][/\ (/\ last.op = "fetch" /\ last'.op = "fetch"
         /\ last'.url = last.url
         /\ last.ret # None /\ last'.ret # None) => last'.ret = last.ret
     /\ \A u \in DOMAIN served :
          Cardinality({ n \in DOMAIN files' : n = Filename(u) }) <= 1]_vars

\* C26: after successful calls only, the file at the path returned for a
\* URL holds the bytes that URL serves.
C26_FileOfRequestedURL ==
  (last.op = "fetch" /\ last.ret # None) =>
    /\ last.ret \in DOMAIN files
    /\ files[last.ret].data = Body(served, last.url)

\* C22: the files a sweep counts and the files it removes are files of
\* cache_dir: its total is the total of the files cache_dir held when it
\* walked, every file it removed was in cache_dir, and the files outside
\* cache_dir are as they were.
C22_SweepConfined ==
  [][last'.sweeps = 1 =>
       /\ outside' = outside
       /\ Names(last'.deleted) \cap DOMAIN outside = {}
       /\ dirExists' =>
            last'.sweepTotal = TotalMB(files') + SumMB(last'.deleted)]_vars

\* A sweep has removed files of cache_dir while the disk holds older and
\* larger files outside it.
C22_Witness ==
  /\ last.sweeps = 1
  /\ last.deleted # <<>>
  /\ Cardinality(DOMAIN outside) = 2
  /\ files # <<>>

\* C23: a call for key k creates or replaces no file but cache_dir/k; any
\* other file is left as it was or is removed by the sweep of the call; and
\* a call that runs no sweep (a hit, a failed call) removes no file.
C23_FrameOfFetch ==
  [][last'.op = "fetch" =>
       LET k == Filename(last'.url)
       IN /\ DOMAIN files' \subseteq (DOMAIN files) \cup {k}
          /\ \A n \in (DOMAIN files) \ {k} :
               \/ n \in DOMAIN files' /\ files'[n] = files[n]
               \/ n \notin DOMAIN files' /\ n \in Names(last'.deleted)
          /\ (DOMAIN files) \ (DOMAIN files') \subseteq Names(last'.deleted)
          /\ last'.sweeps = 0 => DOMAIN files \subseteq DOMAIN files']_vars

\* A call has written its file, its sweep has removed a file, and a file
\* of another key is still in cache_dir.
C23_Witness ==
  /\ last.op = "fetch"
  /\ last.outcome = "ok"
  /\ last.deleted # <<>>
  /\ Filename(last.url) \in DOMAIN files
  /\ \E n \in DOMAIN files : n # Filename(last.url)

\* C24: a call starts its sweep only when it has written the last chunk of
\* the body and closed the file; it starts at most one sweep, and a call
\* that has returned has swept if and only if it downloaded the file.
C24_SweepOrdering ==
  \A t \in Threads :
    LET th == threads[t]
    IN /\ th.sweeps <= 1
       /\ th.sweeps = 1 =>
            /\ th.pos = Len(Body(served, th.url))
            /\ ~th.attached
            /\ th.pc \in {"remove", "return", "done"}
       /\ th.pc = "done" => (th.sweeps = 1 <=> th.outcome = "ok")

\* One call is in the removal loop of its sweep, and another has returned a
\* hit without a sweep.
C24_Witness ==
  \E t, u \in Threads :
    /\ threads[t].pc = "remove"
    /\ threads[t].sweeps = 1
    /\ threads[u].pc = "done"
    /\ threads[u].outcome = "hit"
    /\ threads[u].sweeps = 0

\* C25: one call issues at most one GET, whatever the GET's outcome, and
\* none when it is a hit or cache_dir cannot be created.
C25_NoAutomaticRetry ==
  last.op = "fetch" =>
    /\ last.gets <= 1
    /\ last.outcome \in {"hit", "makedirs_error"} => last.gets = 0

\* A call whose GET raised has returned None after that one GET.
C25_Witness ==
  /\ last.op = "fetch"
  /\ last.outcome = "request_error"
  /\ last.gets = 1
  /\ last.ret = None

(***************************************************************************)
(* The memory check, utils.py:468-609.  Times are in seconds and RSS in MB; *)
(* 800 * 0.8 == 640.0 in binary floating point, so new_mb > 640 is the      *)
(* comparison of line 585.  The variable mem holds the clock, the module    *)
(* globals under their names, and what the last call did.                   *)
(***************************************************************************)

\* utils.py:19
MEMORY_CHECK_INTERVAL == 30

\* utils.py:23
MIN_CLEANUP_INTERVAL == 10

\* utils.py:24
MAX_MEMORY_USAGE_MB == 1000

\* utils.py:29
MAX_HISTORY_LENGTH == 10

\* time.time() when the process starts: far more than an interval past 0,
\* the initial LAST_MEMORY_CHECK.
StartClock == 10 * MEMORY_CHECK_INTERVAL

\* Bound of the model: the seconds SpecMem lets pass.
MaxElapsed == 60

\* The steps of the clock between two calls.
Ticks == {MIN_CLEANUP_INTERVAL \div 2, MEMORY_CHECK_INTERVAL}

\* The RSS values sampled, in MB: at and just over the two thresholds, and
\* over the hard cap.
Samples ==
  { (MAX_CACHE_SIZE_MB * 8) \div 10, (MAX_CACHE_SIZE_MB * 8) \div 10 + 1,
    MAX_CACHE_SIZE_MB, MAX_CACHE_SIZE_MB + 1, MAX_MEMORY_USAGE_MB + 1 }

\* utils.py:20-22 and 28, the module globals when the module is loaded.
InitialGlobals ==
  [LAST_MEMORY_CHECK |-> 0, HIGH_MEMORY_USAGE |-> FALSE,
   LAST_CLEANUP_TIME |-> 0, MEMORY_HISTORY |-> <<>>]

\* The globals of a mem record.
Globals(m) ==
  [LAST_MEMORY_CHECK |-> m.LAST_MEMORY_CHECK,
   HIGH_MEMORY_USAGE |-> m.HIGH_MEMORY_USAGE,
   LAST_CLEANUP_TIME |-> m.LAST_CLEANUP_TIME,
   MEMORY_HISTORY |-> m.MEMORY_HISTORY]

\* utils.py:477 and 519, the test that returns at the interval gate.
IntervalGate(current_time, last_check) ==
  current_time - last_check < MEMORY_CHECK_INTERVAL

\* Mutant of StillHigh: the flag is cleared under the cleanup threshold.
StillHighAtMax(new_mb) == new_mb > MAX_CACHE_SIZE_MB

\* utils.py:585, HIGH_MEMORY_USAGE = new_mb > MAX_CACHE_SIZE_MB * 0.8.
StillHigh(new_mb) == new_mb * 10 > MAX_CACHE_SIZE_MB * 8

\* utils.py:563-583, new_mb.  It starts as mb_used; the sample after the
\* cleanup replaces it unless memory_info raises; over the hard cap,
\* clear_emergency runs and a third sample replaces it unless that raises.
\*   env.rss1, env.rss2, env.rss3 : the RSS at the start of the call, after
\*                                  the cleanup, after clear_emergency
\*   env.read1, env.read2, env.read3 : whether memory_info returns it or
\*                                     raises
NewMb(mb_used, env) ==
  IF ~env.read2 THEN mb_used
  ELSE IF env.rss2 > MAX_MEMORY_USAGE_MB /\ env.read3 THEN env.rss3
  ELSE env.rss2

\* The RSS of the process when the cleanup of the call is over.
PostCleanupRSS(env) ==
  IF env.rss2 > MAX_MEMORY_USAGE_MB /\ env.read2 THEN env.rss3 ELSE env.rss2

\* What a call that did not clean up reports.
NoCleanup(g, path, mb_used) ==
  [g |-> g, path |-> path, mb_used |-> mb_used, new_mb |-> 0, post |-> 0]

\* utils.py:513-609, one whole call at current_time.
check_memory_usage(g, current_time, env) ==
  IF IntervalGate(current_time, g.LAST_MEMORY_CHECK)
    THEN NoCleanup(g, "interval_gate", 0)
  ELSE IF ~env.read1
    THEN NoCleanup(g, "sample_error", 0)
  ELSE
    LET mb_used == env.rss1
        checked == [g EXCEPT !.LAST_MEMORY_CHECK = current_time]
    IN IF ~(g.HIGH_MEMORY_USAGE \/ mb_used > MAX_CACHE_SIZE_MB)
         THEN NoCleanup(checked, "normal", mb_used)
       ELSE IF current_time - g.LAST_CLEANUP_TIME < MIN_CLEANUP_INTERVAL
         THEN NoCleanup(checked, "cleanup_gate", mb_used)
       ELSE
         LET new_mb == NewMb(mb_used, env)
         IN [g |-> [checked EXCEPT !.HIGH_MEMORY_USAGE = StillHigh(new_mb),
                                   !.LAST_CLEANUP_TIME = current_time],
             path |-> "cleaned", mb_used |-> mb_used, new_mb |-> new_mb,
             post |-> PostCleanupRSS(env)]

\* Mutant of Appended: the oldest entries are the ones kept.
AppendedKeepsOldest(history, sample) ==
  LET h == Append(history, sample)
  IN IF Len(h) > MAX_HISTORY_LENGTH THEN SubSeq(h, 1, MAX_HISTORY_LENGTH)
     ELSE h

\* utils.py:483-486, the history with the new sample, cut to its last
\* MAX_HISTORY_LENGTH entries.
Appended(history, sample) ==
  LET h == Append(history, sample)
  IN IF Len(h) > MAX_HISTORY_LENGTH
       THEN SubSeq(h, Len(h) - MAX_HISTORY_LENGTH + 1, Len(h))
       ELSE h

\* Mutant of track_memory_usage: the call that returns at the gate passes
\* through line 509 as well.
track_memory_usage_stamps_at_gate(g, current_time, env) ==
  IF IntervalGate(current_time, g.LAST_MEMORY_CHECK)
    THEN [g |-> [g EXCEPT !.LAST_CLEANUP_TIME = current_time],
          path |-> "interval_gate", appended |-> 0]
  ELSE [g |-> [g EXCEPT
                 !.MEMORY_HISTORY = Appended(@, <<current_time, env.rss>>),
                 !.LAST_MEMORY_CHECK = current_time,
                 !.LAST_CLEANUP_TIME = current_time],
        path |-> "tracked", appended |-> 1]

\* utils.py:468-511, one whole call at current_time.  env.rss is the RSS
\* and env.read whether memory_info returns it.  A call that returns at the
\* gate leaves through the return of line 478; a call in which memory_info
\* raises goes on to line 509.
track_memory_usage(g, current_time, env) ==
  IF IntervalGate(current_time, g.LAST_MEMORY_CHECK)
    THEN [g |-> g, path |-> "interval_gate", appended |-> 0]
  ELSE IF ~env.read
    THEN [g |-> [g EXCEPT !.LAST_CLEANUP_TIME = current_time],
          path |-> "sample_error", appended |-> 0]
  ELSE [g |-> [g EXCEPT
                 !.MEMORY_HISTORY = Appended(@, <<current_time, env.rss>>),
                 !.LAST_MEMORY_CHECK = current_time,
                 !.LAST_CLEANUP_TIME = current_time],
        path |-> "tracked", appended |-> 1]
(***************************************************************************)
(* SpecMem: the two functions are called one after another, the clock       *)
(* advancing between the calls.                                             *)
(***************************************************************************)

\* No call has been made.  In the record of a call, was_high is
\* HIGH_MEMORY_USAGE when the call began.
NoMemCall ==
  [op |-> "none", path |-> "none", mb_used |-> 0, new_mb |-> 0, post |-> 0,
   appended |-> 0, was_high |-> FALSE]

\* The mem record with globals g at time t after call c.
Mem(g, t, c) ==
  [clock |-> t, call |-> c,
   LAST_MEMORY_CHECK |-> g.LAST_MEMORY_CHECK,
   HIGH_MEMORY_USAGE |-> g.HIGH_MEMORY_USAGE,
   LAST_CLEANUP_TIME |-> g.LAST_CLEANUP_TIME,
   MEMORY_HISTORY |-> g.MEMORY_HISTORY]

\* What the process and psutil do during one call of check_memory_usage;
\* the third sample is only taken after a second one over the hard cap.
CheckEnvs ==
  { e \in [rss1 : Samples, read1 : BOOLEAN, rss2 : Samples, read2 : BOOLEAN,
           rss3 : Samples, read3 : BOOLEAN] :
      /\ (e.rss2 <= MAX_MEMORY_USAGE_MB \/ ~e.read2) =>
           (e.rss3 = e.rss2 /\ e.read3)
      /\ ~e.read1 => (e.rss2 = e.rss1 /\ e.read2) }

\* What the process and psutil do during one call of track_memory_usage:
\* one RSS value is enough for what the call does to the globals that
\* check_memory_usage reads.
TrackEnvs == [rss : {MAX_CACHE_SIZE_MB}, read : BOOLEAN]

\* The variables of the thumbnail cache, which the memory check leaves
\* alone.
cacheVars ==
  <<served, dirExists, files, now, last, script, threads, budget, downloaded,
    hashSeed, outside>>

InitMem ==
  /\ served = <<>>
  /\ dirExists = FALSE
  /\ files = <<>>
  /\ now = 0
  /\ last = NoCall
  /\ script = 0
  /\ threads = <<>>
  /\ budget = MAX_CACHE_SIZE_MB
  /\ downloaded = NoneDownloaded
  /\ hashSeed = FirstSeed
  /\ outside = NoOutside
  /\ mem = Mem(InitialGlobals, StartClock, NoMemCall)

\* Time passes between two calls.
Tick ==
  /\ \E d \in Ticks :
       /\ mem.clock + d <= StartClock + MaxElapsed
       /\ mem' = [mem EXCEPT !.clock = @ + d]
  /\ UNCHANGED cacheVars

\* One call check_memory_usage().
CheckMemory ==
  /\ \E env \in CheckEnvs :
     \E r \in {check_memory_usage(Globals(mem), mem.clock, env)} :
       mem' = Mem(r.g, mem.clock,
                  [op |-> "check", path |-> r.path, mb_used |-> r.mb_used,
                   new_mb |-> r.new_mb, post |-> r.post, appended |-> 0,
                   was_high |-> mem.HIGH_MEMORY_USAGE])
  /\ UNCHANGED cacheVars

\* One call track_memory_usage().
TrackMemory ==
  /\ \E env \in TrackEnvs :
     \E r \in {track_memory_usage(Globals(mem), mem.clock, env)} :
       mem' = Mem(r.g, mem.clock,
                  [op |-> "track", path |-> r.path, mb_used |-> 0,
                   new_mb |-> 0, post |-> 0, appended |-> r.appended,
                   was_high |-> mem.HIGH_MEMORY_USAGE])
  /\ UNCHANGED cacheVars

NextMem ==
  \/ Tick
  \/ CheckMemory
  \/ TrackMemory

SpecMem == InitMem /\ [][NextMem]_vars

\* C28: across calls made one after another, HIGH_MEMORY_USAGE goes from
\* False to True only in a call of check_memory_usage whose sample is over
\* MAX_CACHE_SIZE_MB, goes from True to False only in a call after whose
\* cleanup the RSS is at most 0.8 * MAX_CACHE_SIZE_MB, and is not changed by
\* a call that returns at the interval gate.
C28_HighMemoryHysteresis ==
  [][/\ (~mem.HIGH_MEMORY_USAGE /\ mem'.HIGH_MEMORY_USAGE) =>
          /\ mem'.call.op = "check"
          /\ mem'.call.path = "cleaned"
          /\ mem'.call.mb_used > MAX_CACHE_SIZE_MB
     /\ (mem.HIGH_MEMORY_USAGE /\ ~mem'.HIGH_MEMORY_USAGE) =>
          /\ mem'.call.op = "check"
          /\ mem'.call.path = "cleaned"
          /\ mem'.call.post * 10 <= MAX_CACHE_SIZE_MB * 8
     /\ mem'.call.path = "interval_gate" =>
          mem'.HIGH_MEMORY_USAGE = mem.HIGH_MEMORY_USAGE]_vars

\* C28 (amended): the same, the call that clears the flag being one whose
\* last RSS sample is at most 0.8 * MAX_CACHE_SIZE_MB: the sample taken after
\* the cleanup or, when that sample cannot be taken, the sample taken when
\* the call began.
C28_HysteresisOnLastSample ==
  [][/\ (~mem.HIGH_MEMORY_USAGE /\ mem'.HIGH_MEMORY_USAGE) =>
          /\ mem'.call.op = "check"
          /\ mem'.call.path = "cleaned"
          /\ mem'.call.mb_used > MAX_CACHE_SIZE_MB
     /\ (mem.HIGH_MEMORY_USAGE /\ ~mem'.HIGH_MEMORY_USAGE) =>
          /\ mem'.call.op = "check"
          /\ mem'.call.path = "cleaned"
          /\ mem'.call.new_mb * 10 <= MAX_CACHE_SIZE_MB * 8
     /\ mem'.call.path = "interval_gate" =>
          mem'.HIGH_MEMORY_USAGE = mem.HIGH_MEMORY_USAGE]_vars

\* A call cleared the flag that an earlier call had set.
C28_Witness ==
  /\ mem.call.op = "check"
  /\ mem.call.path = "cleaned"
  /\ mem.call.was_high
  /\ ~mem.HIGH_MEMORY_USAGE
  /\ mem.call.new_mb = mem.call.post

(***************************************************************************)
(* SpecHist: track_memory_usage is called again and again for long enough   *)
(* that the history fills up and is cut; check_memory_usage is called in    *)
(* between.  mem carries two more fields: taken, every sample that a call   *)
(* of track_memory_usage took, oldest first, and growth, the MB by which    *)
(* the RSS of the process grows in one interval.                            *)
(***************************************************************************)

\* Bound of the model: the intervals SpecHist lets pass, more than
\* MAX_HISTORY_LENGTH.
MaxHistIntervals == 11

\* The MB by which the RSS grows in one interval: none, or enough for the
\* leak warning of utils.py:492-499.
Growths == {0, MAX_HISTORY_LENGTH + 1}

\* The RSS of the process at time t, in MB.
RssAt(t, growth) ==
  MAX_CACHE_SIZE_MB \div 2
    + growth * ((t - StartClock) \div MEMORY_CHECK_INTERVAL)

\* What check_memory_usage samples in SpecHist: every sample is read.
HistCheckEnv(t, growth) ==
  [rss1 |-> RssAt(t, growth), read1 |-> TRUE,
   rss2 |-> RssAt(t, growth), read2 |-> TRUE,
   rss3 |-> RssAt(t, growth), read3 |-> TRUE]

\* The mem record m with the samples taken so far.
WithTaken(m, taken, growth) ==
  [clock |-> m.clock, call |-> m.call,
   LAST_MEMORY_CHECK |-> m.LAST_MEMORY_CHECK,
   HIGH_MEMORY_USAGE |-> m.HIGH_MEMORY_USAGE,
   LAST_CLEANUP_TIME |-> m.LAST_CLEANUP_TIME,
   MEMORY_HISTORY |-> m.MEMORY_HISTORY,
   taken |-> taken, growth |-> growth]

InitHist ==
  /\ served = <<>>
  /\ dirExists = FALSE
  /\ files = <<>>
  /\ now = 0
  /\ last = NoCall
  /\ script = 0
  /\ threads = <<>>
  /\ budget = MAX_CACHE_SIZE_MB
  /\ downloaded = NoneDownloaded
  /\ hashSeed = FirstSeed
  /\ outside = NoOutside
  /\ \E growth \in Growths :
       mem = WithTaken(Mem(InitialGlobals, StartClock, NoMemCall), <<>>,
                       growth)

\* The clock is a whole number of intervals past StartClock.
OnInterval(t) == (t - StartClock) % MEMORY_CHECK_INTERVAL = 0

\* A whole interval passes between two calls.
TickHist ==
  /\ OnInterval(mem.clock)
  /\ mem.clock + MEMORY_CHECK_INTERVAL
       <= StartClock + MaxHistIntervals * MEMORY_CHECK_INTERVAL
  /\ mem' = [mem EXCEPT !.clock = @ + MEMORY_CHECK_INTERVAL]
  /\ UNCHANGED cacheVars

\* Half an interval passes after a recorded check, and then the other half.
HalfTickHist ==
  /\ \/ ~OnInterval(mem.clock)
     \/ /\ mem.clock = mem.LAST_MEMORY_CHECK
        /\ mem.clock + MEMORY_CHECK_INTERVAL
             <= StartClock + MaxHistIntervals * MEMORY_CHECK_INTERVAL
  /\ mem' = [mem EXCEPT !.clock = @ + MEMORY_CHECK_INTERVAL \div 2]
  /\ UNCHANGED cacheVars

\* One call track_memory_usage().
TrackHist ==
  /\ \E env \in [rss : {RssAt(mem.clock, mem.growth)}, read : BOOLEAN] :
     \E r \in {track_memory_usage(Globals(mem), mem.clock, env)} :
       mem' = WithTaken(
                Mem(r.g, mem.clock,
                    [op |-> "track", path |-> r.path, mb_used |-> 0,
                     new_mb |-> 0, post |-> 0, appended |-> r.appended,
                     was_high |-> mem.HIGH_MEMORY_USAGE]),
                IF ~IntervalGate(mem.clock, mem.LAST_MEMORY_CHECK) /\ env.read
                  THEN Append(mem.taken, <<mem.clock, env.rss>>)
                  ELSE mem.taken,
                mem.growth)
  /\ UNCHANGED cacheVars

\* One call check_memory_usage().
CheckHist ==
  /\ \E r \in {check_memory_usage(Globals(mem), mem.clock,
                                  HistCheckEnv(mem.clock, mem.growth))} :
       mem' = WithTaken(
                Mem(r.g, mem.clock,
                    [op |-> "check", path |-> r.path, mb_used |-> r.mb_used,
                     new_mb |-> r.new_mb, post |-> r.post, appended |-> 0,
                     was_high |-> mem.HIGH_MEMORY_USAGE]),
                mem.taken, mem.growth)
  /\ UNCHANGED cacheVars

NextHist ==
  \/ TickHist
  \/ HalfTickHist
  \/ TrackHist
  \/ CheckHist

SpecHist == InitHist /\ [][NextHist]_vars

\* The last n entries of sequence s, all of it when it is shorter.
LastN(s, n) ==
  IF Len(s) > n THEN SubSeq(s, Len(s) - n + 1, Len(s)) ELSE s

\* C29: after every call the history holds at most MAX_HISTORY_LENGTH
\* samples, they are the most recent samples that track_memory_usage took,
\* in the order taken, and their timestamps do not decrease; a call of
\* track_memory_usage made less than MEMORY_CHECK_INTERVAL after the last
\* recorded check leaves the history as it was.
C29_BoundedHistory ==
  [][/\ Len(mem'.MEMORY_HISTORY) <= MAX_HISTORY_LENGTH
     /\ mem'.MEMORY_HISTORY = LastN(mem'.taken, MAX_HISTORY_LENGTH)
     /\ \A i \in 1..(Len(mem'.MEMORY_HISTORY) - 1) :
          mem'.MEMORY_HISTORY[i][1] <= mem'.MEMORY_HISTORY[i + 1][1]
     /\ (/\ mem'.call.op = "track"
         /\ mem'.clock = mem.clock
         /\ mem.clock - mem.LAST_MEMORY_CHECK < MEMORY_CHECK_INTERVAL) =>
          mem'.MEMORY_HISTORY = mem.MEMORY_HISTORY]_vars

\* More samples were taken than the history holds, the RSS grew, and the
\* last call returned at the gate.
C29_Witness ==
  /\ Len(mem.taken) > MAX_HISTORY_LENGTH
  /\ Len(mem.MEMORY_HISTORY) = MAX_HISTORY_LENGTH
  /\ mem.MEMORY_HISTORY[1][2] # mem.MEMORY_HISTORY[2][2]
  /\ mem.call.op = "track"
  /\ mem.call.path = "interval_gate"

(***************************************************************************)
(* SpecMemConc: download threads call check_memory_usage at the same time.  *)
(* The function takes no lock, so every read and every write of a module    *)
(* global is a step of its own and the threads interleave between them.     *)
(* threads[t] is the call of thread t:                                      *)
(*   pc            where the thread is in check_memory_usage                *)
(*   current_time  its time.time() of line 518                              *)
(*   mb_used       its sample of lines 522-524                              *)
(*   new_mb        its new_mb of lines 563-583                              *)
(*   calls         the calls it has made                                    *)
(* mem carries one more field, starts: the time of every start of the       *)
(* cleanup sequence of lines 541-546, and passed: the current_time of       *)
(* every call that went past the test of line 519.                          *)
(***************************************************************************)

\* Bound of the model: the seconds SpecMemConc lets pass.
MaxConcElapsed == 30

\* The RSS values sampled in SpecMemConc, in MB.
ConcSamples == { (MAX_CACHE_SIZE_MB * 8) \div 10, MAX_CACHE_SIZE_MB + 1 }

\* What the process and psutil do around the cleanup of one call.
ConcEnvs == { e \in CheckEnvs :
                /\ e.read1
                /\ {e.rss1, e.rss2, e.rss3} \subseteq ConcSamples
                /\ e.rss1 = e.rss2 }

\* A thread that is not in check_memory_usage.
NotChecking ==
  [pc |-> "idle", current_time |-> 0, mb_used |-> 0, new_mb |-> 0,
   calls |-> 0]

\* The mem record m with the cleanup starts and the gate passes so far.
WithStarts(m, starts, passed) ==
  [clock |-> m.clock, call |-> m.call,
   LAST_MEMORY_CHECK |-> m.LAST_MEMORY_CHECK,
   HIGH_MEMORY_USAGE |-> m.HIGH_MEMORY_USAGE,
   LAST_CLEANUP_TIME |-> m.LAST_CLEANUP_TIME,
   MEMORY_HISTORY |-> m.MEMORY_HISTORY,
   starts |-> starts, passed |-> passed]

\* The variables that check_memory_usage and its threads leave alone.
concFrame ==
  <<served, dirExists, files, now, last, script, budget, downloaded,
    hashSeed, outside>>

InitMemConc ==
  /\ served = <<>>
  /\ dirExists = FALSE
  /\ files = <<>>
  /\ now = 0
  /\ last = NoCall
  /\ script = 0
  /\ threads = [t \in Threads |-> NotChecking]
  /\ budget = MAX_CACHE_SIZE_MB
  /\ downloaded = NoneDownloaded
  /\ hashSeed = FirstSeed
  /\ outside = NoOutside
  /\ mem = WithStarts(Mem(InitialGlobals, StartClock, NoMemCall), <<>>, <<>>)

\* Thread t moves to pc, its other fields as in th; the locals of a call
\* that has returned are gone.
Goes(t, th, pc) ==
  threads' = [threads EXCEPT ![t] =
    IF pc = "done" THEN [NotChecking EXCEPT !.pc = pc, !.calls = th.calls]
    ELSE [th EXCEPT !.pc = pc]]

\* An interval passes.
TickConc ==
  /\ mem.clock + MEMORY_CHECK_INTERVAL <= StartClock + MaxConcElapsed
  /\ mem' = [mem EXCEPT !.clock = @ + MEMORY_CHECK_INTERVAL]
  /\ UNCHANGED <<threads, concFrame>>

\* utils.py:460 and 518: download_thumbnail calls check_memory_usage, which
\* reads the clock.
CheckCall(t) ==
  /\ threads[t].pc \in {"idle", "done"}
  /\ threads[t].calls < MaxCalls
  /\ threads' = [threads EXCEPT ![t] =
       [pc |-> "gate", current_time |-> mem.clock, mb_used |-> 0,
        new_mb |-> 0, calls |-> threads[t].calls + 1]]
  /\ UNCHANGED <<mem, concFrame>>

\* utils.py:519-520, the read of LAST_MEMORY_CHECK and the return.
CheckGate(t) ==
  /\ threads[t].pc = "gate"
  /\ IF IntervalGate(threads[t].current_time, mem.LAST_MEMORY_CHECK)
       THEN /\ Goes(t, threads[t], "done")
            /\ UNCHANGED mem
       ELSE /\ Goes(t, threads[t], "sample")
            /\ mem' = [mem EXCEPT
                 !.passed = Append(@, threads[t].current_time)]
  /\ UNCHANGED concFrame

\* utils.py:522-524, the sample; when memory_info raises the call ends in
\* the handler of line 605.
CheckSample(t) ==
  /\ threads[t].pc = "sample"
  /\ \/ \E rss \in ConcSamples :
          Goes(t, [threads[t] EXCEPT !.mb_used = rss], "stamp")
     \/ Goes(t, threads[t], "done")
  /\ UNCHANGED <<mem, concFrame>>

\* utils.py:527, LAST_MEMORY_CHECK = current_time.
CheckStamp(t) ==
  /\ threads[t].pc = "stamp"
  /\ mem' = [mem EXCEPT !.LAST_MEMORY_CHECK = threads[t].current_time]
  /\ Goes(t, threads[t], "decide")
  /\ UNCHANGED concFrame

\* utils.py:529, the read of HIGH_MEMORY_USAGE.
CheckDecide(t) ==
  /\ threads[t].pc = "decide"
  /\ IF mem.HIGH_MEMORY_USAGE \/ threads[t].mb_used > MAX_CACHE_SIZE_MB
       THEN Goes(t, threads[t], "cleanup_gate")
       ELSE Goes(t, threads[t], "done")
  /\ UNCHANGED <<mem, concFrame>>

\* utils.py:530-531, the read of LAST_CLEANUP_TIME and the return.
CheckCleanupGate(t) ==
  /\ threads[t].pc = "cleanup_gate"
  /\ IF threads[t].current_time - mem.LAST_CLEANUP_TIME < MIN_CLEANUP_INTERVAL
       THEN Goes(t, threads[t], "done")
       ELSE Goes(t, threads[t], "flag")
  /\ UNCHANGED <<mem, concFrame>>

\* utils.py:533-538, HIGH_MEMORY_USAGE = True when it is not set.
CheckFlag(t) ==
  /\ threads[t].pc = "flag"
  /\ mem' = [mem EXCEPT !.HIGH_MEMORY_USAGE = TRUE]
  /\ Goes(t, threads[t], "cleanup")
  /\ UNCHANGED concFrame

\* utils.py:540-583, the cleanup sequence and the samples after it.
CheckCleanup(t) ==
  /\ threads[t].pc = "cleanup"
  /\ \E env \in { e \in ConcEnvs : e.rss1 = threads[t].mb_used } :
       Goes(t, [threads[t] EXCEPT !.new_mb = NewMb(threads[t].mb_used, env)],
            "unflag")
  /\ mem' = [mem EXCEPT !.starts = Append(@, mem.clock)]
  /\ UNCHANGED concFrame

\* utils.py:585, HIGH_MEMORY_USAGE = new_mb > MAX_CACHE_SIZE_MB * 0.8.
CheckUnflag(t) ==
  /\ threads[t].pc = "unflag"
  /\ mem' = [mem EXCEPT !.HIGH_MEMORY_USAGE = StillHigh(threads[t].new_mb)]
  /\ Goes(t, threads[t], "stamp_cleanup")
  /\ UNCHANGED concFrame

\* utils.py:603, LAST_CLEANUP_TIME = current_time.
CheckStampCleanup(t) ==
  /\ threads[t].pc = "stamp_cleanup"
  /\ mem' = [mem EXCEPT !.LAST_CLEANUP_TIME = threads[t].current_time]
  /\ Goes(t, threads[t], "done")
  /\ UNCHANGED concFrame

NextMemConc ==
  \/ TickConc
  \/ \E t \in Threads :
       \/ CheckCall(t)
       \/ CheckGate(t)
       \/ CheckSample(t)
       \/ CheckStamp(t)
       \/ CheckDecide(t)
       \/ CheckCleanupGate(t)
       \/ CheckFlag(t)
       \/ CheckCleanup(t)
       \/ CheckUnflag(t)
       \/ CheckStampCleanup(t)

SpecMemConc == InitMemConc /\ [][NextMemConc]_vars

\* C27: in every interleaving of the calls of check_memory_usage made by
\* concurrent download threads, two starts of the cleanup sequence are at
\* least MEMORY_CHECK_INTERVAL apart.
C27_IntervalGatingConc ==
  \A i, j \in DOMAIN mem.starts :
    i < j => mem.starts[j] - mem.starts[i] >= MEMORY_CHECK_INTERVAL

(***************************************************************************)
(* SpecAware: functions wrapped by memory_aware (memory.py) are called one  *)
(* after another.  mem is the clock and the last call:                      *)
(*   before, after   what the check before and the check after the          *)
(*                   function did: "gated", "sampled" or "cleaned"          *)
(*   rss_before, rss_after   the RSS of the process at the two checks       *)
(*   duration        the running time of the function                       *)
(*   raised          whether the function raised                            *)
(***************************************************************************)

\* memory.py:126, the default of memory_aware.
max_memory_mb == 200

\* memory.py:14, the default of MemoryManager.
check_interval == 30

\* Bound of the model: the seconds SpecAware lets pass.
MaxAwareElapsed == 90

\* The running times of the wrapped function.
Durations ==
  {0, check_interval \div 2, check_interval,
   check_interval + check_interval \div 2}

\* The RSS values sampled, in MB.
AwareSamples == {max_memory_mb, max_memory_mb + 1}

\* memory.py:14-25, MemoryManager(max_mb).
MemoryManager(max_mb) ==
  [max_memory_mb |-> max_mb, check_interval |-> check_interval,
   last_check |-> 0]

\* Mutant of ManagerGate: the gate closes for half the interval only.
ManagerGateHalf(manager, current_time) ==
  current_time - manager.last_check < manager.check_interval \div 2

\* memory.py:46-47, the test that returns False before sampling.
ManagerGate(manager, current_time) ==
  current_time - manager.last_check < manager.check_interval

\* memory.py:40-58, MemoryManager.check_memory_usage at current_time with
\* the RSS at rss.
manager_check_memory_usage(manager, current_time, rss) ==
  IF ManagerGate(manager, current_time)
    THEN [manager |-> manager, did |-> "gated"]
    ELSE [manager |-> [manager EXCEPT !.last_check = current_time],
          did |-> IF rss > manager.max_memory_mb THEN "cleaned"
                  ELSE "sampled"]

\* memory.py:133-145, one call of the wrapper at time t: a new manager, the
\* check before, the function, the check after in the finally clause.
wrapper(t, env) ==
  LET manager == MemoryManager(max_memory_mb)
      first == manager_check_memory_usage(manager, t, env.rss_before)
      second == manager_check_memory_usage(first.manager, t + env.duration,
                                           env.rss_after)
  IN [op |-> "aware", before |-> first.did, after |-> second.did,
      rss_before |-> env.rss_before, rss_after |-> env.rss_after,
      duration |-> env.duration, raised |-> env.raises]

\* No wrapped function has been called.
NoAwareCall ==
  [op |-> "none", before |-> "none", after |-> "none", rss_before |-> 0,
   rss_after |-> 0, duration |-> 0, raised |-> FALSE]

InitAware ==
  /\ served = <<>>
  /\ dirExists = FALSE
  /\ files = <<>>
  /\ now = 0
  /\ last = NoCall
  /\ script = 0
  /\ threads = <<>>
  /\ budget = MAX_CACHE_SIZE_MB
  /\ downloaded = NoneDownloaded
  /\ hashSeed = FirstSeed
  /\ outside = NoOutside
  /\ mem = [clock |-> StartClock, call |-> NoAwareCall]

\* Time passes between two calls.
TickAware ==
  /\ mem.clock + check_interval \div 2 <= StartClock + MaxAwareElapsed
  /\ mem' = [mem EXCEPT !.clock = @ + check_interval \div 2]
  /\ UNCHANGED cacheVars

\* One call of a wrapped function.
CallAware ==
  /\ \E env \in [rss_before : AwareSamples, rss_after : AwareSamples,
                 duration : Durations, raises : BOOLEAN] :
       /\ mem.clock + env.duration <= StartClock + MaxAwareElapsed
       /\ mem' = [clock |-> mem.clock + env.duration,
                  call |-> wrapper(mem.clock, env)]
  /\ UNCHANGED cacheVars

NextAware ==
  \/ TickAware
  \/ CallAware

SpecAware == InitAware /\ [][NextAware]_vars

\* C30: on every call of a function wrapped by memory_aware the memory
\* usage is sampled, and cleaned up when over max_memory_mb, before the
\* function runs and again after it finishes or raises, whatever its
\* running time.
C30_ChecksBeforeAndAfter ==
  mem.call.op = "aware" =>
    /\ mem.call.before =
         IF mem.call.rss_before > max_memory_mb THEN "cleaned" ELSE "sampled"
    /\ mem.call.after =
         IF mem.call.rss_after > max_memory_mb THEN "cleaned" ELSE "sampled"

(***************************************************************************)
(* SpecManager: check_memory_usage is called again and again on one         *)
(* MemoryManager (memory.py).  mem is the clock, the manager, the time of   *)
(* every call of cleanup(), and the last call:                              *)
(*   at           its time.time() of line 45                                *)
(*   last_before  _last_check when it began                                 *)
(*   cleaned      whether it called cleanup()                               *)
(*   ret          "True", "False", or "raised" when psutil raised in it     *)
(***************************************************************************)

\* Bound of the model: the seconds SpecManager lets pass.
MaxManagerElapsed == 90

\* memory.py:40-58 with what the caller sees.  env.rss is the RSS,
\* env.read whether get_memory_usage of line 51 returns, env.logged
\* whether log_memory_usage at the end of cleanup() (line 104) returns;
\* neither call is guarded, so a psutil error leaves through the caller.
manager_call(manager, current_time, env) ==
  LET r == manager_check_memory_usage(manager, current_time, env.rss)
      gated == r.did = "gated"
      cleaned == r.did = "cleaned" /\ env.read
  IN [manager |-> r.manager,
      call |-> [op |-> "check", at |-> current_time,
                last_before |-> manager.last_check,
                cleaned |-> cleaned,
                ret |-> IF gated THEN "False"
                        ELSE IF ~env.read THEN "raised"
                        ELSE IF ~cleaned THEN "False"
                        ELSE IF env.logged THEN "True" ELSE "raised"]]

\* What the process and psutil do during one call: log_memory_usage only
\* runs in a call that sampled.
ManagerEnvs ==
  { e \in [rss : AwareSamples, read : BOOLEAN, logged : BOOLEAN] :
      ~e.read => e.logged }

\* No call has been made.
NoManagerCall ==
  [op |-> "none", at |-> 0, last_before |-> 0, cleaned |-> FALSE,
   ret |-> "none"]

InitManager ==
  /\ served = <<>>
  /\ dirExists = FALSE
  /\ files = <<>>
  /\ now = 0
  /\ last = NoCall
  /\ script = 0
  /\ threads = <<>>
  /\ budget = MAX_CACHE_SIZE_MB
  /\ downloaded = NoneDownloaded
  /\ hashSeed = FirstSeed
  /\ outside = NoOutside
  /\ mem = [clock |-> StartClock, manager |-> MemoryManager(max_memory_mb),
            cleanups |-> <<>>, call |-> NoManagerCall]

\* Time passes between two calls.
TickManager ==
  /\ mem.clock + check_interval \div 2 <= StartClock + MaxManagerElapsed
  /\ mem' = [mem EXCEPT !.clock = @ + check_interval \div 2]
  /\ UNCHANGED cacheVars

\* One call manager.check_memory_usage().
CheckManager ==
  /\ \E env \in ManagerEnvs :
     \E r \in {manager_call(mem.manager, mem.clock, env)} :
       mem' = [clock |-> mem.clock, manager |-> r.manager, call |-> r.call,
               cleanups |-> IF r.call.cleaned
                              THEN Append(mem.cleanups, mem.clock)
                              ELSE mem.cleanups]
  /\ UNCHANGED cacheVars

NextManager ==
  \/ TickManager
  \/ CheckManager

SpecManager == InitManager /\ [][NextManager]_vars

MaxRegistrations == 3

\* Bound of the model: the seconds SpecHandlers lets pass.
MaxHandlersElapsed == 30

\* memory_manager.py:27, self._cleanup_interval.
cleanup_interval == 30

\* The functions registered.
Handlers == {"h1", "h2", "h3"}

\* An argument of register_cleanup_handler that is not callable.
NotCallable == "not_callable"

\* memory_manager.py:38-45 and memory.py:69-76, register_cleanup_handler.
register_cleanup_handler(handlers, handler) ==
  IF handler \in Handlers /\ \A i \in DOMAIN handlers : handlers[i] # handler
    THEN Append(handlers, handler)
    ELSE handlers

\* Mutant of run_handlers: the loop ends at the first handler that raises.
run_handlers_until_raise(handlers, raising) ==
  IF \E i \in DOMAIN handlers : handlers[i] \in raising
    THEN SubSeq(handlers, 1,
                CHOOSE i \in DOMAIN handlers :
                  /\ handlers[i] \in raising
                  /\ \A j \in 1..(i - 1) : handlers[j] \notin raising)
    ELSE handlers

\* memory_manager.py:105-109 and memory.py:91-95, the loop over the
\* handlers: the calls it makes, in order.  A handler in raising raises an
\* Exception, which the except clause of the loop body catches, and the loop
\* goes on with the next handler.
RECURSIVE run_handlers(_, _)
run_handlers(handlers, raising) ==
  IF handlers = <<>> THEN <<>>
  ELSE <<Head(handlers)>> \o run_handlers(Tail(handlers), raising)

\* memory_manager.py:77-92, should_cleanup at current_time.
should_cleanup(last_cleanup, current_time, rss) ==
  IF current_time - last_cleanup < cleanup_interval THEN FALSE
  ELSE rss > max_memory_mb

\* memory_manager.py:94-119, ResourceTracker.cleanup at current_time.
\* env.rss is the RSS, env.raising the handlers that raise, env.logged
\* whether the log_memory_usage of line 118 returns or psutil raises in it.
tracker_cleanup(m, current_time, env) ==
  IF ~should_cleanup(m.last_cleanup, current_time, env.rss)
    THEN [last_cleanup |-> m.last_cleanup,
          call |-> [op |-> "cleanup", ran |-> FALSE, invoked |-> <<>>,
                    raising |-> env.raising, ret |-> "False"]]
    ELSE [last_cleanup |-> current_time,
          call |-> [op |-> "cleanup", ran |-> TRUE,
                    invoked |-> run_handlers(m.handlers, env.raising),
                    raising |-> env.raising,
                    ret |-> IF env.logged THEN "True" ELSE "raised"]]

\* memory.py:86-104, MemoryManager.cleanup.
manager_cleanup(m, current_time, env) ==
  [last_cleanup |-> m.last_cleanup,
   call |-> [op |-> "cleanup", ran |-> TRUE,
             invoked |-> run_handlers(m.handlers, env.raising),
             raising |-> env.raising,
             ret |-> IF env.logged THEN "None" ELSE "raised"]]

\* No call of cleanup() has been made.
NoCleanupCall ==
  [op |-> "none", ran |-> FALSE, invoked |-> <<>>, raising |-> {},
   ret |-> "none"]

InitHandlers ==
  /\ served = <<>>
  /\ dirExists = FALSE
  /\ files = <<>>
  /\ now = 0
  /\ last = NoCall
  /\ script = 0
  /\ threads = <<>>
  /\ budget = MAX_CACHE_SIZE_MB
  /\ downloaded = NoneDownloaded
  /\ hashSeed = FirstSeed
  /\ outside = NoOutside
  /\ \E kind \in {"ResourceTracker", "MemoryManager"} :
       mem = [kind |-> kind, handlers |-> <<>>, last_cleanup |-> 0,
              registered |-> <<>>, clock |-> StartClock,
              call |-> NoCleanupCall]

\* Time passes between two calls.
TickHandlers ==
  /\ mem.clock + cleanup_interval \div 2 <= StartClock + MaxHandlersElapsed
  /\ mem' = [mem EXCEPT !.clock = @ + cleanup_interval \div 2]
  /\ UNCHANGED cacheVars

\* One call register_cleanup_handler(handler).
Register ==
  /\ Len(mem.registered) < MaxRegistrations
  /\ \E handler \in Handlers \cup {NotCallable} :
       mem' = [mem EXCEPT
         !.handlers = register_cleanup_handler(@, handler),
         !.registered = Append(@, handler)]
  /\ UNCHANGED cacheVars

\* One call cleanup().
Cleanup ==
  /\ \E env \in [rss : AwareSamples, raising : SUBSET Handlers,
                 logged : BOOLEAN] :
     \E r \in {IF mem.kind = "ResourceTracker"
                 THEN tracker_cleanup(mem, mem.clock, env)
                 ELSE manager_cleanup(mem, mem.clock, env)} :
       mem' = [mem EXCEPT !.last_cleanup = r.last_cleanup, !.call = r.call]
  /\ UNCHANGED cacheVars

NextHandlers ==
  \/ TickHandlers
  \/ Register
  \/ Cleanup

SpecHandlers == InitHandlers /\ [][NextHandlers]_vars

\* The distinct callable values of a sequence, in the order of their first
\* occurrence.
RECURSIVE FirstOccurrences(_)
FirstOccurrences(seq) ==
  IF seq = <<>> THEN <<>>
  ELSE LET front == FirstOccurrences(SubSeq(seq, 1, Len(seq) - 1))
           x == seq[Len(seq)]
       IN IF x \in Handlers /\ \A i \in DOMAIN front : front[i] # x
            THEN Append(front, x)
            ELSE front

MaxOps == 4
MaxSamples == 2

\* self._monitor_thread.is_alive(), False too when the attribute is missing.
IsAlive(m) == m.thread \in {"test", "log", "sleep"}

InitMonitor ==
  /\ served = <<>>
  /\ dirExists = FALSE
  /\ files = <<>>
  /\ now = 0
  /\ last = NoCall
  /\ script = 0
  /\ threads = <<>>
  /\ budget = MAX_CACHE_SIZE_MB
  /\ downloaded = NoneDownloaded
  /\ hashSeed = FirstSeed
  /\ outside = NoOutside
  /\ mem = [running |-> FALSE, thread |-> "none", main |-> "idle",
            last_op |-> "none", ops |-> 0, samples |-> 0]

\* memory_manager.py:187-210, start(): nothing but a warning when the thread
\* is alive; otherwise running is set and a new thread started.  The old
\* thread has exited then, so no thread runs between these lines.
MonitorStart ==
  /\ mem.main = "idle"
  /\ mem.ops < MaxOps
  /\ mem' = IF IsAlive(mem)
              THEN [mem EXCEPT !.last_op = "start", !.ops = @ + 1]
              ELSE [mem EXCEPT !.running = TRUE, !.thread = "test",
                               !.samples = 0,
                               !.last_op = "start", !.ops = @ + 1]
  /\ UNCHANGED cacheVars

\* memory_manager.py:212-217, stop() up to the join: it returns when no
\* thread is alive, and clears running otherwise.
MonitorStop ==
  /\ mem.main = "idle"
  /\ mem.ops < MaxOps
  /\ mem' = IF IsAlive(mem)
              THEN [mem EXCEPT !.running = FALSE, !.main = "join",
                               !.ops = @ + 1]
              ELSE [mem EXCEPT !.last_op = "stop", !.ops = @ + 1]
  /\ UNCHANGED cacheVars

\* memory_manager.py:220-225, join(timeout=1.0) returns: the thread has
\* exited, or the second has passed with the thread still alive.
MonitorJoin ==
  /\ mem.main = "join"
  /\ mem' = [mem EXCEPT !.main = "idle", !.last_op = "stop"]
  /\ UNCHANGED cacheVars

\* memory_manager.py:181, the test of the while loop.
ThreadTest ==
  /\ mem.thread = "test"
  /\ mem' = [mem EXCEPT !.thread = IF mem.running THEN "log" ELSE "exited"]
  /\ UNCHANGED cacheVars

\* memory_manager.py:182 and 171-179, log_memory_usage: a sample is logged,
\* or psutil or the write to log_file raises and the thread ends.
ThreadLog ==
  /\ mem.thread = "log"
  /\ \/ mem' = [mem EXCEPT !.thread = "sleep",
                  !.samples = IF @ < MaxSamples THEN @ + 1 ELSE @]
     \/ mem' = [mem EXCEPT !.thread = "exited"]
  /\ UNCHANGED cacheVars

\* memory_manager.py:183, time.sleep(self.interval) returns.
ThreadSleep ==
  /\ mem.thread = "sleep"
  /\ mem' = [mem EXCEPT !.thread = "test"]
  /\ UNCHANGED cacheVars

NextMonitor ==
  \/ MonitorStart
  \/ MonitorStop
  \/ MonitorJoin
  \/ ThreadTest
  \/ ThreadLog
  \/ ThreadSleep

SpecMonitor == InitMonitor /\ [][NextMonitor]_vars

\* C33: when the last call that returned is start(), monitoring is active:
\* running is True and the monitor thread is alive.
C33_RestartActive ==
  (mem.main = "idle" /\ mem.last_op = "start") =>
    /\ mem.running
    /\ IsAlive(mem)

(***************************************************************************)
(* SpecApp: the main loop of WSelectorApp (app_memory_managed.py) handles   *)
(* activation, search changes, scroll events, memory checks and idle        *)
(* callbacks, one whole handler at a time, while the threads started by     *)
(* load_wallpapers run.  mem is                                             *)
(*   loading, current_query, current_page   the attributes of these names   *)
(*   sort_mode        config["sort_mode"]                                   *)
(*   grid             the children of flow_box, up to MaxGrid               *)
(*   active_threads   _active_threads, the load threads in it               *)
(*   workers          where each load thread is: "unborn", "setup",         *)
(*                    "search", "finally" or "done"                         *)
(*   idle             the callbacks queued with GLib.idle_add, in order     *)
(*   loads            the load threads started                              *)
(*   event            the last call of load_wallpapers: who made it, its    *)
(*                    page, and whether it returned at the loading test     *)
(***************************************************************************)

\* Bounds of the model: the load threads started and the children of the
\* grid that are counted.
MaxLoads == 3
MaxGrid == 2

\* current_query before the first search.
NoQuery == "<None>"

\* The texts of the search entry, stripped.
Queries == {"", "cats", "dogs"}

\* The load threads that have not returned.
Alive(m) ==
  { t \in DOMAIN m.workers : m.workers[t] \in {"setup", "search", "finally"} }

\* The load threads whose cleanup callback is queued.
AwaitingCleanup(m) ==
  { t \in DOMAIN m.workers :
      \E i \in DOMAIN m.idle :
        m.idle[i].kind = "cleanup" /\ m.idle[i].thread = t }

\* app_memory_managed.py:205-222, cleanup_resources: the threads that have
\* ended leave _active_threads (224-235) and removed of the widgets, those
\* out of sight, leave the grid (252-284).
cleanup_resources(m, removed) ==
  [m EXCEPT !.active_threads = @ \cap Alive(m), !.grid = @ - removed]

\* app_memory_managed.py:293-314, clear_wallpapers.
clear_wallpapers(m) ==
  [m EXCEPT !.grid = 0, !.current_page = 1]

\* Mutant of LoadingGate: load_wallpapers never returns at the test.
LoadingGateOpen(m) == FALSE

\* app_memory_managed.py:326-327, if self.loading: return.
LoadingGate(m) == m.loading

\* app_memory_managed.py:316-366, load_wallpapers(query, page) called by op;
\* no caller passes sort_mode or refresh.
load_wallpapers(m, op, query, page, removed) ==
  IF LoadingGate(m)
    THEN [m EXCEPT !.event = [op |-> op, page |-> page, gated |-> TRUE]]
    ELSE
      LET t == m.loads + 1
          flagged == [m EXCEPT
                        !.loading = TRUE,
                        !.current_query =
                           IF query \in {NoQuery, ""} THEN @ ELSE query]
          cleaned == cleanup_resources(flagged,
                       IF removed <= m.grid THEN removed ELSE m.grid)
          cleared == IF page = 1 THEN clear_wallpapers(cleaned) ELSE cleaned
      IN [cleared EXCEPT
            !.active_threads = @ \cup {t},
            !.workers = [@ EXCEPT ![t] = "setup"],
            !.loads = t,
            !.event = [op |-> op, page |-> page, gated |-> FALSE]]

\* Mutant of OnLoaded: a page that has arrived is counted.
OnLoadedCountsPage(m, n) ==
  [m EXCEPT !.grid = IF @ + n > MaxGrid THEN MaxGrid ELSE @ + n,
            !.current_page = @ + 1]

\* app_memory_managed.py:432-448, _on_wallpapers_loaded with n wallpapers.
OnLoaded(m, n) ==
  [m EXCEPT !.grid = IF @ + n > MaxGrid THEN MaxGrid ELSE @ + n]

\* Mutant of OnCleanup: the callback leaves the flag set.
OnCleanupKeepsLoading(m, t, tracker_cleans) ==
  [m EXCEPT !.active_threads = @ \ {t}]

\* app_memory_managed.py:408-427, the cleanup callback of load thread t;
\* tracker_cleans: whether memory_tracker.cleanup() runs its handler,
\* cleanup_resources.
OnCleanup(m, t, tracker_cleans) ==
  LET released == [m EXCEPT !.loading = FALSE, !.active_threads = @ \ {t}]
  IN IF tracker_cleans THEN cleanup_resources(released, 0) ELSE released

InitApp ==
  /\ served = <<>>
  /\ dirExists = FALSE
  /\ files = <<>>
  /\ now = 0
  /\ last = NoCall
  /\ script = 0
  /\ threads = <<>>
  /\ budget = MAX_CACHE_SIZE_MB
  /\ downloaded = NoneDownloaded
  /\ hashSeed = FirstSeed
  /\ outside = NoOutside
  /\ mem = [loading |-> FALSE, current_query |-> NoQuery, current_page |-> 1,
            sort_mode |-> "latest", grid |-> 0, active_threads |-> {},
            workers |-> [t \in 1..MaxLoads |-> "unborn"], idle |-> <<>>,
            loads |-> 0,
            event |-> [op |-> "none", page |-> 0, gated |-> FALSE]]

\* A call of load_wallpapers can start a thread.
CanLoad == mem.loading \/ mem.loads < MaxLoads

\* app_memory_managed.py:548-559, do_activate.
Activate ==
  /\ CanLoad
  /\ \E removed \in 0..MaxGrid :
       mem' = load_wallpapers(mem, "activate", NoQuery, 1, removed)
  /\ UNCHANGED cacheVars

\* app_memory_managed.py:515-519, on_search_changed.
SearchChanged ==
  /\ CanLoad
  /\ \E query \in Queries, removed \in 0..MaxGrid :
       /\ query # mem.current_query
       /\ mem' = load_wallpapers(mem, "search", query, 1, removed)
  /\ UNCHANGED cacheVars

\* app_memory_managed.py:521-528, on_scroll, scrolling down near the
\* bottom.
Scroll ==
  /\ CanLoad
  /\ ~mem.loading
  /\ \E removed \in 0..MaxGrid :
       mem' = load_wallpapers(mem, "scroll", NoQuery, mem.current_page + 1,
                              removed)
  /\ UNCHANGED cacheVars

\* app_memory_managed.py:185-203, the timer and the memory warning when
\* they call cleanup_resources.
MemoryCheck ==
  /\ \E removed \in 0..mem.grid :
       mem' = cleanup_resources(mem, removed)
  /\ UNCHANGED cacheVars

\* app_memory_managed.py:374-382 and 402-404: the set-up of load thread t
\* succeeds, or raises and _on_load_error is queued.
WorkerSetup(t) ==
  /\ mem.workers[t] = "setup"
  /\ \/ mem' = [mem EXCEPT !.workers = [@ EXCEPT ![t] = "search"]]
     \/ mem' = [mem EXCEPT
          !.workers = [@ EXCEPT ![t] = "finally"],
          !.idle = Append(@, [kind |-> "error", thread |-> t, n |-> 0])]
  /\ UNCHANGED cacheVars

\* app_memory_managed.py:384-400: the search returns n wallpapers and
\* _on_wallpapers_loaded is queued, or raises and _on_load_error is queued.
WorkerSearch(t) ==
  /\ mem.workers[t] = "search"
  /\ \/ \E n \in 0..1 :
          mem' = [mem EXCEPT
            !.workers = [@ EXCEPT ![t] = "finally"],
            !.idle = Append(@, [kind |-> "loaded", thread |-> t, n |-> n])]
     \/ mem' = [mem EXCEPT
          !.workers = [@ EXCEPT ![t] = "finally"],
          !.idle = Append(@, [kind |-> "error", thread |-> t, n |-> 0])]
  /\ UNCHANGED cacheVars

\* app_memory_managed.py:406-430, the finally clause: the cleanup callback
\* is queued and the thread returns.
WorkerFinally(t) ==
  /\ mem.workers[t] = "finally"
  /\ mem' = [mem EXCEPT
       !.workers = [@ EXCEPT ![t] = "done"],
       !.idle = Append(@, [kind |-> "cleanup", thread |-> t, n |-> 0])]
  /\ UNCHANGED cacheVars

\* The main loop runs the first idle callback.
RunIdle ==
  /\ mem.idle # <<>>
  /\ LET cb == Head(mem.idle)
         rest == [mem EXCEPT !.idle = Tail(@)]
     IN CASE cb.kind = "loaded" -> mem' = OnLoaded(rest, cb.n)
          [] cb.kind = "error" -> mem' = rest
          [] cb.kind = "cleanup" ->
               \E tracker_cleans \in BOOLEAN :
                 mem' = OnCleanup(rest, cb.thread, tracker_cleans)
  /\ UNCHANGED cacheVars

NextApp ==
  \/ Activate
  \/ SearchChanged
  \/ Scroll
  \/ MemoryCheck
  \/ \E t \in 1..MaxLoads :
       \/ WorkerSetup(t)
       \/ WorkerSearch(t)
       \/ WorkerFinally(t)
  \/ RunIdle

SpecApp == InitApp /\ [][NextApp]_vars

\* C34: at most one load thread is running or awaiting its cleanup
\* callback, and a call of load_wallpapers made while loading is True
\* starts no thread and changes nothing.
C34_SingleLoadInFlight ==
  [][/\ Cardinality(Alive(mem') \cup AwaitingCleanup(mem')) <= 1
     /\ (mem.loading /\ mem'.event # mem.event) =>
          mem' = [mem EXCEPT !.event = mem'.event]]_vars

\* A search change while a load thread is searching.
C34_Witness ==
  /\ mem.event.op = "search"
  /\ mem.event.gated
  /\ \E t \in DOMAIN mem.workers : mem.workers[t] = "search"
  /\ mem.loads = 2

SpecAppLive ==
  /\ SpecApp
  /\ WF_vars(RunIdle)
  /\ \A t \in 1..MaxLoads :
       WF_vars(WorkerSetup(t) \/ WorkerSearch(t) \/ WorkerFinally(t))

CheckSampled ==
  /\ \E env \in { e \in CheckEnvs : e.read1 /\ e.read2 /\ e.read3 } :
     \E r \in {check_memory_usage(Globals(mem), mem.clock, env)} :
       mem' = Mem(r.g, mem.clock,
                  [op |-> "check", path |-> r.path, mb_used |-> r.mb_used,
                   new_mb |-> r.new_mb, post |-> r.post, appended |-> 0,
                   was_high |-> mem.HIGH_MEMORY_USAGE])
  /\ UNCHANGED cacheVars

\* One call track_memory_usage() in which the sample is read.
TrackSampled ==
  /\ \E env \in { e \in TrackEnvs : e.read } :
     \E r \in {track_memory_usage(Globals(mem), mem.clock, env)} :
       mem' = Mem(r.g, mem.clock,
                  [op |-> "track", path |-> r.path, mb_used |-> 0,
                   new_mb |-> 0, post |-> 0, appended |-> r.appended,
                   was_high |-> mem.HIGH_MEMORY_USAGE])
  /\ UNCHANGED cacheVars

NextSampled ==
  \/ Tick
  \/ CheckSampled
  \/ TrackSampled

SpecSampled == InitMem /\ [][NextSampled]_vars

\* C37: when sampling never raises, LAST_CLEANUP_TIME is at most
\* LAST_MEMORY_CHECK in every state, and no call of check_memory_usage
\* returns at the MIN_CLEANUP_INTERVAL test.
C37_CleanupGateDead ==
  /\ mem.LAST_CLEANUP_TIME <= mem.LAST_MEMORY_CHECK
  /\ mem.call.path # "cleanup_gate"

\* A call of check_memory_usage cleaned up with the flag already set, an
\* interval after a call of track_memory_usage.
C37_Witness ==
  /\ mem.call.op = "check"
  /\ mem.call.path = "cleaned"
  /\ mem.call.was_high
  /\ Len(mem.MEMORY_HISTORY) >= 1
  /\ mem.LAST_CLEANUP_TIME = mem.clock

=============================================================================
